---- MODULE Spec2Model ----
(***************************************************************************)
(* A model of the JSON Pointer engine of json-utils: the pointer codec,    *)
(* getJsonValueAtPointer / getAllJsonPointers (pointer.ts), the mutators   *)
(* setJsonValueAtPointer / removeJsonValueAtPointer (mutator.ts) and       *)
(* deepEquals / getJsonDiff / applyJsonPatch (compare.ts).                 *)
(*                                                                         *)
(* Strings are sequences of characters over the alphabet Chars.  JavaScript*)
(* objects and arrays live in a heap of nodes addressed by references, so  *)
(* that in-place mutation and aliasing are part of the model.              *)
(***************************************************************************)
EXTENDS Integers, Sequences, FiniteSets, TLC

VARIABLES pc, heap, args, ret

vars == <<pc, heap, args, ret>>

(***************************************************************************)
(* Bounds of the model                                                     *)
(***************************************************************************)
\* longest string given to the segment codec
MaxStrLen == 4

\* longest array of an input document
MaxArrLen == 3

\* most segments of a pointer given to the mutators
MaxSegs == 2

\* longest array of a document given to getJsonDiff
MaxDiffLen == 4

\* longest operation list given to applyJsonPatch
MaxOps == 2

(***************************************************************************)
(* Characters and strings                                                  *)
(***************************************************************************)
\* the characters strings are made of: the two pointer metacharacters, two
\* decimal digits and a letter
Chars == {"/", "~", "0", "1", "a"}

\* the decimal digits, in order (what \d matches); array indices are printed
\* with them, so they are not limited to the digits of Chars
DigitSeq == <<"0", "1", "2", "3", "4", "5", "6", "7", "8", "9">>

Digits == {DigitSeq[i] : i \in 1..10}

DigitVal(c) == (CHOOSE i \in 1..10 : DigitSeq[i] = c) - 1

\* UTF-16 code unit of a character, the order Array.prototype.sort uses
Code(c) ==
  CASE c = "/" -> 47
    [] c \in Digits -> 48 + DigitVal(c)
    [] c = "a" -> 97
    [] c = "~" -> 126

RECURSIVE StrsOfLen(_)
StrsOfLen(n) ==
  IF n = 0 THEN {<<>>}
  ELSE {<<c>> \o s : c \in Chars, s \in StrsOfLen(n - 1)}

StrsUpTo(n) == UNION {StrsOfLen(k) : k \in 0..n}

\* String.prototype.replace(/pat/g, rep): every non-overlapping occurrence,
\* scanning left to right
RECURSIVE replaceAll(_, _, _)
replaceAll(s, pat, rep) ==
  IF Len(s) < Len(pat) THEN s
  ELSE IF SubSeq(s, 1, Len(pat)) = pat
       THEN rep \o replaceAll(SubSeq(s, Len(pat) + 1, Len(s)), pat, rep)
       ELSE <<s[1]>> \o replaceAll(Tail(s), pat, rep)

\* String.prototype.split('/')
RECURSIVE split(_)
split(s) ==
  IF \A i \in 1..Len(s) : s[i] # "/" THEN <<s>>
  ELSE LET i == CHOOSE k \in 1..Len(s) :
                  s[k] = "/" /\ \A j \in 1..(k - 1) : s[j] # "/"
       IN  <<SubSeq(s, 1, i - 1)>> \o split(SubSeq(s, i + 1, Len(s)))

\* the value parseInt gives when no digit can be read
NaN == -1

RECURSIVE parseDigits(_, _)
parseDigits(s, acc) ==
  IF s = <<>> \/ s[1] \notin Digits THEN acc
  ELSE parseDigits(Tail(s), acc * 10 + DigitVal(s[1]))

\* Number.parseInt(s) and Number.parseInt(s, 10): the longest prefix of
\* decimal digits, NaN when there is none.  The alphabet has no sign, blank
\* or 'x', so radix 10 and the default radix read the same number.
parseInt(s) ==
  IF s = <<>> \/ s[1] \notin Digits THEN NaN ELSE parseDigits(s, 0)

\* /^\d+$/.test(s)
isDigits(s) == s # <<>> /\ \A i \in 1..Len(s) : s[i] \in Digits

\* String(n) of a non-negative integer
RECURSIVE numToStr(_)
numToStr(n) ==
  IF n < 10 THEN <<DigitSeq[n + 1]>>
  ELSE numToStr(n \div 10) \o numToStr(n % 10)

(***************************************************************************)
(* JavaScript values                                                       *)
(*                                                                         *)
(* A value is a primitive or a reference into the heap.  A heap node is an *)
(* object (its own properties, in property order) or an array (its slots). *)
(* A document given as an input is a tree of the same shape, with the      *)
(* children nested instead of referenced.                                  *)
(***************************************************************************)
Undefined == [t |-> "undefined"]

\* no value yet
None == [t |-> "none"]

\* an array slot that was never assigned; reading it gives undefined
Hole == [t |-> "hole"]

Null == [t |-> "null"]

Num(n) == [t |-> "number", v |-> n]

Str(s) == [t |-> "string", v |-> s]

Ref(a) == [t |-> "ref", a |-> a]

Obj(entries) == [t |-> "object", v |-> entries]

Arr(slots) == [t |-> "array", v |-> slots]

Entry(k, x) == [k |-> k, x |-> x]

IsRef(x) == x.t = "ref"

IsUndefined(x) == x.t = "undefined"

\* the typeof operator
typeof(x) ==
  CASE x.t = "undefined" -> "undefined"
    [] x.t = "number" -> "number"
    [] x.t = "string" -> "string"
    [] OTHER -> "object"

\* the === operator: primitives by value, objects by identity
strictEquals(a, b) ==
  /\ a.t = b.t
  /\ CASE a.t = "ref" -> a.a = b.a
       [] a.t \in {"number", "string"} -> a.v = b.v
       [] OTHER -> TRUE

\* Array.isArray
isArray(h, x) == IsRef(x) /\ h[x.a].t = "array"

\* the keys of an object node, in property order (Object.keys)
keys(node) == [i \in 1..Len(node.v) |-> node.v[i].k]

\* key in obj, for own properties (no key of the model's alphabet names an
\* inherited property)
hasKey(node, key) == \E i \in 1..Len(node.v) : node.v[i].k = key

\* obj[key]
getProp(node, key) ==
  IF hasKey(node, key)
  THEN node.v[CHOOSE i \in 1..Len(node.v) : node.v[i].k = key].x
  ELSE Undefined

\* a canonical array index: property order puts these first, ascending
isIndexKey(key) == isDigits(key) /\ numToStr(parseInt(key)) = key

\* where a new property goes: integer keys ascending before all others, the
\* others in insertion order
insertAt(entries, key) ==
  IF isIndexKey(key)
  THEN Cardinality({i \in 1..Len(entries) :
                      isIndexKey(entries[i].k)
                      /\ parseInt(entries[i].k) < parseInt(key)})
  ELSE Len(entries)

\* obj[key] = x
setProp(node, key, x) ==
  IF hasKey(node, key)
  THEN [node EXCEPT !.v = [i \in 1..Len(node.v) |->
                             IF node.v[i].k = key THEN Entry(key, x)
                             ELSE node.v[i]]]
  ELSE LET n == insertAt(node.v, key)
       IN  [node EXCEPT !.v = SubSeq(node.v, 1, n) \o <<Entry(key, x)>>
                                \o SubSeq(node.v, n + 1, Len(node.v))]

\* delete obj[key]
deleteProp(node, key) ==
  [node EXCEPT !.v = SelectSeq(node.v, LAMBDA e : e.k # key)]

\* arr[index]
getIndex(node, index) ==
  IF index >= 0 /\ index < Len(node.v) /\ node.v[index + 1].t # "hole"
  THEN node.v[index + 1]
  ELSE Undefined

\* what an insertion at the index would do: the elements from the index on
\* move up by one
setIndexInserting(node, index, x) ==
  IF index < Len(node.v)
  THEN [node EXCEPT !.v = SubSeq(node.v, 1, index) \o <<x>>
                            \o SubSeq(node.v, index + 1, Len(node.v))]
  ELSE [node EXCEPT !.v = [i \in 1..(index + 1) |->
                             IF i <= Len(node.v) THEN node.v[i]
                             ELSE IF i = index + 1 THEN x ELSE Hole]]

\* arr[index] = x: assigning past the end grows the array, leaving holes
setIndex(node, index, x) ==
  IF index < Len(node.v)
  THEN [node EXCEPT !.v = [i \in 1..Len(node.v) |->
                             IF i = index + 1 THEN x ELSE node.v[i]]]
  ELSE [node EXCEPT !.v = [i \in 1..(index + 1) |->
                             IF i <= Len(node.v) THEN node.v[i]
                             ELSE IF i = index + 1 THEN x ELSE Hole]]

\* what delete arr[index] would do: the slot becomes a hole, the length stays
spliceAsDelete(node, index) ==
  IF index < Len(node.v)
  THEN [node EXCEPT !.v[index + 1] = Hole]
  ELSE node

\* arr.splice(index, 1), index not negative
splice(node, index) ==
  IF index < Len(node.v)
  THEN [node EXCEPT !.v = SubSeq(node.v, 1, index)
                            \o SubSeq(node.v, index + 2, Len(node.v))]
  ELSE node

\* the children of a node, as values
children(node) ==
  IF node.t = "array" THEN node.v
  ELSE [i \in 1..Len(node.v) |-> node.v[i].x]

(***************************************************************************)
(* Documents in and out of the heap                                        *)
(***************************************************************************)
RECURSIVE alloc(_, _)
RECURSIVE allocAll(_, _, _)

\* builds the tree in the heap, children first; gives the new heap and the
\* value (a reference for an object or array)
alloc(h, tree) ==
  IF tree.t = "array"
  THEN LET c == allocAll(h, tree.v, <<>>)
       IN  [h |-> Append(c.h, Arr(c.rs)), r |-> Ref(Len(c.h) + 1)]
  ELSE IF tree.t = "object"
  THEN LET c == allocAll(h, [i \in 1..Len(tree.v) |-> tree.v[i].x], <<>>)
       IN  [h |-> Append(c.h, Obj([i \in 1..Len(tree.v) |->
                                     Entry(tree.v[i].k, c.rs[i])])),
            r |-> Ref(Len(c.h) + 1)]
  ELSE [h |-> h, r |-> tree]

allocAll(h, trees, acc) ==
  IF trees = <<>> THEN [h |-> h, rs |-> acc]
  ELSE LET a == alloc(h, Head(trees))
       IN  allocAll(a.h, Tail(trees), Append(acc, a.r))

\* the tree a value denotes (the heap below it has no cycle)
RECURSIVE view(_, _)
view(h, x) ==
  IF ~IsRef(x) THEN x
  ELSE LET node == h[x.a]
       IN  IF node.t = "array"
           THEN Arr([i \in 1..Len(node.v) |-> view(h, node.v[i])])
           ELSE Obj([i \in 1..Len(node.v) |->
                       Entry(node.v[i].k, view(h, node.v[i].x))])

\* JSON.parse(JSON.stringify(tree)): a hole or undefined array slot becomes
\* null, an undefined property is dropped
RECURSIVE jsonRoundTrip(_)
jsonRoundTrip(tree) ==
  IF tree.t = "array"
  THEN Arr([i \in 1..Len(tree.v) |->
              IF tree.v[i].t \in {"hole", "undefined"} THEN Null
              ELSE jsonRoundTrip(tree.v[i])])
  ELSE IF tree.t = "object"
  THEN LET kept == SelectSeq(tree.v, LAMBDA e : e.x.t # "undefined")
       IN  Obj([i \in 1..Len(kept) |->
                  Entry(kept[i].k, jsonRoundTrip(kept[i].x))])
  ELSE tree

\* JSON.parse(JSON.stringify(x)): a fresh copy sharing nothing with x
jsonClone(h, x) == alloc(h, jsonRoundTrip(view(h, x)))

(***************************************************************************)
(* Value predicates (predicate.ts)                                         *)
(***************************************************************************)
\* the recursion of isJsonValue: "true", "false", or "overflow" when it
\* never ends (RangeError: Maximum call stack size exceeded).  every() stops
\* at the first member that is no JSON value and skips the holes of an
\* array; path holds the containers the recursion is inside of, and meeting
\* one of them again repeats the same descent without end.
RECURSIVE isJsonValueFrom(_, _, _)
RECURSIVE everyIsJsonValue(_, _, _, _)
isJsonValueFrom(h, x, path) ==
  CASE x.t \in {"null", "number", "string"} -> "true"
    [] x.t \in {"undefined", "hole"} -> "false"
    [] x.t = "ref" ->
         IF x.a \in path THEN "overflow"
         ELSE everyIsJsonValue(h, children(h[x.a]), path \cup {x.a}, 1)

\* obj.every(isJsonValue) / Object.values(obj).every(isJsonValue) from
\* member i on
everyIsJsonValue(h, members, path, i) ==
  IF i > Len(members) THEN "true"
  ELSE IF members[i].t = "hole"
  THEN everyIsJsonValue(h, members, path, i + 1)
  ELSE LET r == isJsonValueFrom(h, members[i], path)
       IN  IF r = "true" THEN everyIsJsonValue(h, members, path, i + 1)
           ELSE r

\* the call isJsonValue(x), isJsonObject(x) or isJsonArray(x) ends in a
\* RangeError instead of returning
stackOverflow(h, x) == isJsonValueFrom(h, x, {}) = "overflow"

isJsonValue(h, x) == isJsonValueFrom(h, x, {}) = "true"

isJsonObject(h, x) == isJsonValue(h, x) /\ IsRef(x) /\ h[x.a].t = "object"

isJsonArray(h, x) == isJsonValue(h, x) /\ isArray(h, x)

isJsonPointer(s) == s = <<>> \/ s[1] = "/"

(***************************************************************************)
(* Pointer codec (pointer.ts)                                              *)
(***************************************************************************)
\* the same escaping with the two replacements swapped
encodePointerSlashFirst(pointer) ==
  replaceAll(replaceAll(pointer, <<"/">>, <<"~", "1">>), <<"~">>, <<"~", "0">>)

encodePointer(pointer) ==
  replaceAll(replaceAll(pointer, <<"~">>, <<"~", "0">>), <<"/">>, <<"~", "1">>)

decodePointer(pointer) ==
  replaceAll(replaceAll(pointer, <<"~", "1">>, <<"/">>), <<"~", "0">>, <<"~">>)

\* a raised error
Throw(e) == [t |-> "throw", e |-> e]

IsThrow(x) == x.t = "throw"

\* getJsonPointerSegments decoding ~0 before ~1
getJsonPointerSegmentsTildeFirst(pointer) ==
  IF ~isJsonPointer(pointer) THEN [e |-> "InvalidPointer", segments |-> <<>>]
  ELSE LET segments == Tail(split(pointer))
       IN  [e |-> "ok",
            segments |->
              [i \in 1..Len(segments) |->
                 replaceAll(replaceAll(segments[i], <<"~", "0">>, <<"~">>),
                            <<"~", "1">>, <<"/">>)]]

\* getJsonPointerSegments: split on '/', drop the token before the first
\* '/', decode the rest; e is "InvalidPointer" when it raises
getJsonPointerSegments(pointer) ==
  IF ~isJsonPointer(pointer) THEN [e |-> "InvalidPointer", segments |-> <<>>]
  ELSE LET segments == Tail(split(pointer))
       IN  [e |-> "ok",
            segments |->
              [i \in 1..Len(segments) |->
                 replaceAll(replaceAll(segments[i], <<"~", "1">>, <<"/">>),
                            <<"~", "0">>, <<"~">>)]]

\* the walk of getJsonValueAtPointer taking every segment that begins with
\* digits as an array index
RECURSIVE getWalkParsedIndex(_, _, _)
getWalkParsedIndex(h, current, path) ==
  IF path = <<>> THEN current
  ELSE LET key == Head(path)
       IN  IF isArray(h, current) /\ parseInt(key) # NaN
           THEN LET next == getIndex(h[current.a], parseInt(key))
                IN  IF IsUndefined(next) THEN Undefined
                    ELSE getWalkParsedIndex(h, next, Tail(path))
           ELSE IF isJsonObject(h, current)
           THEN LET next == getProp(h[current.a], key)
                IN  IF IsUndefined(next) THEN Undefined
                    ELSE getWalkParsedIndex(h, next, Tail(path))
           ELSE Undefined

(***************************************************************************)
(* Pointer navigator (pointer.ts)                                          *)
(***************************************************************************)
\* the for loop of getJsonValueAtPointer over the remaining segments
RECURSIVE getWalk(_, _, _)
getWalk(h, current, path) ==
  IF path = <<>> THEN current
  ELSE LET key == Head(path)
       IN  IF isArray(h, current) /\ isDigits(key)
           THEN LET index == parseInt(key)
                    next == IF index < Len(h[current.a].v)
                            THEN getIndex(h[current.a], index)
                            ELSE Undefined
                IN  IF IsUndefined(next) THEN Undefined
                    ELSE getWalk(h, next, Tail(path))
           ELSE IF isJsonObject(h, current)
           THEN LET next == getProp(h[current.a], key)
                IN  IF IsUndefined(next) THEN Undefined
                    ELSE getWalk(h, next, Tail(path))
           ELSE Undefined

\* getJsonValueAtPointer without the check of the root value
getJsonValueAtPointerAnyRoot(h, obj, pointer) ==
  IF pointer \in {<<"/">>, <<>>} THEN obj
  ELSE IF ~isJsonPointer(pointer) THEN Throw("InvalidPointer")
  ELSE getWalk(h, obj, getJsonPointerSegments(pointer).segments)

\* getJsonValueAtPointer: the value, undefined, or a raised error
getJsonValueAtPointer(h, obj, pointer) ==
  IF pointer \in {<<"/">>, <<>>} THEN obj
  ELSE IF stackOverflow(h, obj) THEN Throw("RangeError")
  ELSE IF ~isJsonObject(h, obj) THEN Throw("InvalidContainer")
  ELSE IF ~isJsonPointer(pointer) THEN Throw("InvalidPointer")
  ELSE getWalk(h, obj, getJsonPointerSegments(pointer).segments)

\* s < t in the order of Array.prototype.sort (by UTF-16 code unit)
RECURSIVE strLess(_, _)
strLess(s, t) ==
  IF t = <<>> THEN FALSE
  ELSE IF s = <<>> THEN TRUE
  ELSE IF s[1] # t[1] THEN Code(s[1]) < Code(t[1])
  ELSE strLess(Tail(s), Tail(t))

\* Array.from(new Set(pointers)).sort()
RECURSIVE sortSet(_)
sortSet(S) ==
  IF S = {} THEN <<>>
  ELSE LET m == CHOOSE x \in S : \A y \in S \ {x} : strLess(x, y)
       IN  <<m>> \o sortSet(S \ {m})

uniqueSorted(pointers) == sortSet({pointers[i] : i \in 1..Len(pointers)})

RECURSIVE getAllJsonPointers(_, _, _)
RECURSIVE pointersOfSlots(_, _, _, _)
RECURSIVE pointersOfKeys(_, _, _, _)

\* getAllJsonPointers returning the pointers as collected, not sorted
getAllJsonPointersUnsorted(h, obj, prefix) ==
  IF ~IsRef(obj) THEN <<prefix>>
  ELSE IF isArray(h, obj)
  THEN <<prefix>> \o pointersOfSlots(h, h[obj.a].v, prefix, 1)
  ELSE <<prefix>> \o pointersOfKeys(h, h[obj.a].v, prefix, 1)

\* getAllJsonPointers(obj, prefix)
getAllJsonPointers(h, obj, prefix) ==
  IF ~IsRef(obj) THEN <<prefix>>
  ELSE IF isArray(h, obj)
  THEN uniqueSorted(<<prefix>> \o pointersOfSlots(h, h[obj.a].v, prefix, 1))
  ELSE uniqueSorted(<<prefix>> \o pointersOfKeys(h, h[obj.a].v, prefix, 1))

\* obj.forEach((item, index) => ...), which skips holes
pointersOfSlots(h, slots, prefix, i) ==
  IF i > Len(slots) THEN <<>>
  ELSE IF slots[i].t = "hole" THEN pointersOfSlots(h, slots, prefix, i + 1)
  ELSE LET currentPointer == prefix \o <<"/">> \o numToStr(i - 1)
       IN  <<currentPointer>>
             \o getAllJsonPointers(h, slots[i], currentPointer)
             \o pointersOfSlots(h, slots, prefix, i + 1)

\* Object.keys(obj).forEach((key) => ...)
pointersOfKeys(h, entries, prefix, i) ==
  IF i > Len(entries) THEN <<>>
  ELSE LET escapedKey == replaceAll(replaceAll(entries[i].k, <<"~">>,
                                               <<"~", "0">>),
                                    <<"/">>, <<"~", "1">>)
           currentPointer == prefix \o <<"/">> \o escapedKey
       IN  <<currentPointer>>
             \o getAllJsonPointers(h, entries[i].x, currentPointer)
             \o pointersOfKeys(h, entries, prefix, i + 1)

(***************************************************************************)
(* Pointer mutator (mutator.ts)                                            *)
(***************************************************************************)
\* the container made for a missing node: an array when the next segment
\* parses as an integer, an object otherwise
newContainer(path, i) ==
  IF i + 1 <= Len(path) /\ parseInt(path[i + 1]) # NaN
  THEN Arr(<<>>) ELSE Obj(<<>>)

\* the for loop of setJsonValueAtPointer from segment i (counted from 1);
\* reg is memoryReferenceRegister.  Gives the heap and "ok" or the error.
RECURSIVE setLoop(_, _, _, _, _, _)
setLoop(h, nestedValue, reg, path, i, value) ==
  IF i > Len(path) THEN [h |-> h, e |-> "ok"]
  ELSE
    LET \* if (i === path.length - 1) { ... }
        h1 == IF i # Len(path) THEN h
              ELSE IF isJsonObject(h, nestedValue)
              THEN [h EXCEPT ![nestedValue.a] = setProp(@, path[i], value)]
              ELSE IF isArray(h, nestedValue) /\ isDigits(path[i])
              THEN [h EXCEPT ![nestedValue.a] =
                               setIndex(@, parseInt(path[i]), value)]
              ELSE h
        keyIsNumber == parseInt(path[i]) # NaN
        \* the property name key stands for
        key == IF keyIsNumber THEN numToStr(parseInt(path[i])) ELSE path[i]
        fresh == Ref(Len(h1) + 1)
    IN  IF ~IsRef(nestedValue)
        THEN setLoop(h1, nestedValue, reg, path, i + 1, value)
        ELSE IF nestedValue.a \in reg
        THEN [h |-> h1, e |-> "CircularReference"]
        \* isJsonObject(nestedValue) on a value that now contains itself
        ELSE IF stackOverflow(h1, nestedValue)
        THEN [h |-> h1, e |-> "RangeError"]
        ELSE IF isJsonObject(h1, nestedValue)
                /\ IsUndefined(getProp(h1[nestedValue.a], key))
        THEN setLoop(Append([h1 EXCEPT ![nestedValue.a] =
                                         setProp(@, key, fresh)],
                            newContainer(path, i)),
                     fresh, reg \cup {nestedValue.a}, path, i + 1, value)
        ELSE IF isJsonObject(h1, nestedValue)
        THEN setLoop(h1, getProp(h1[nestedValue.a], key),
                     reg \cup {nestedValue.a}, path, i + 1, value)
        ELSE IF isArray(h1, nestedValue) /\ keyIsNumber
        THEN IF IsUndefined(getIndex(h1[nestedValue.a], parseInt(path[i])))
             THEN setLoop(Append([h1 EXCEPT ![nestedValue.a] =
                                    setIndex(@, parseInt(path[i]), fresh)],
                                 newContainer(path, i)),
                          fresh, reg \cup {nestedValue.a}, path, i + 1, value)
             ELSE setLoop(h1, getIndex(h1[nestedValue.a], parseInt(path[i])),
                          reg \cup {nestedValue.a}, path, i + 1, value)
        ELSE [h |-> h1, e |-> "ok"]

\* setJsonValueAtPointer without the check of the value
setJsonValueAtPointerAnyValue(h, obj, pointer, value) ==
  IF stackOverflow(h, obj) THEN [h |-> h, e |-> "RangeError"]
  ELSE IF ~isJsonObject(h, obj) THEN [h |-> h, e |-> "InvalidContainer"]
  ELSE IF ~isJsonPointer(pointer) THEN [h |-> h, e |-> "InvalidPointer"]
  ELSE setLoop(h, obj, {}, getJsonPointerSegments(pointer).segments, 1, value)

\* setJsonValueAtPointer(obj, pointer, value)
setJsonValueAtPointer(h, obj, pointer, value) ==
  IF stackOverflow(h, value) THEN [h |-> h, e |-> "RangeError"]
  ELSE IF ~isJsonValue(h, value) THEN [h |-> h, e |-> "InvalidValue"]
  ELSE IF stackOverflow(h, obj) THEN [h |-> h, e |-> "RangeError"]
  ELSE IF ~isJsonObject(h, obj) THEN [h |-> h, e |-> "InvalidContainer"]
  ELSE IF ~isJsonPointer(pointer) THEN [h |-> h, e |-> "InvalidPointer"]
  ELSE setLoop(h, obj, {}, getJsonPointerSegments(pointer).segments, 1, value)

\* the for loop of removeJsonValueAtPointer from segment i (counted from 1)
RECURSIVE removeLoop(_, _, _, _)
removeLoop(h, nestedValue, path, i) ==
  IF i > Len(path) THEN h
  ELSE
    LET key == path[i]
        arrayIdx == parseInt(key)
        atLast == ~IsUndefined(nestedValue) /\ i = Len(path)
        h1 == IF atLast /\ ~(isJsonArray(h, nestedValue) /\ arrayIdx # NaN)
                 /\ isJsonObject(h, nestedValue)
              THEN [h EXCEPT ![nestedValue.a] = deleteProp(@, key)]
              ELSE h
    IN  IF atLast /\ isJsonArray(h, nestedValue) /\ arrayIdx # NaN
        THEN [h EXCEPT ![nestedValue.a] = splice(@, arrayIdx)]
        ELSE IF IsUndefined(nestedValue) THEN h1
        ELSE IF isJsonArray(h1, nestedValue) /\ arrayIdx # NaN
        THEN removeLoop(h1, getIndex(h1[nestedValue.a], arrayIdx), path, i + 1)
        ELSE IF isJsonObject(h1, nestedValue)
        THEN removeLoop(h1, getProp(h1[nestedValue.a], key), path, i + 1)
        ELSE h1

\* removeJsonValueAtPointer without the check for the root pointer
removeJsonValueAtPointerAnyPointer(h, json, pointer) ==
  IF ~isJsonPointer(pointer) THEN [h |-> h, e |-> "InvalidPointer"]
  ELSE IF stackOverflow(h, json) THEN [h |-> h, e |-> "RangeError"]
  ELSE IF ~isJsonObject(h, json) THEN [h |-> h, e |-> "InvalidContainer"]
  ELSE [h |-> removeLoop(h, json, getJsonPointerSegments(pointer).segments, 1),
        e |-> "ok"]

\* removeJsonValueAtPointer(json, pointer)
removeJsonValueAtPointer(h, json, pointer) ==
  IF ~isJsonPointer(pointer) THEN [h |-> h, e |-> "InvalidPointer"]
  ELSE IF stackOverflow(h, json) THEN [h |-> h, e |-> "RangeError"]
  ELSE IF ~isJsonObject(h, json) THEN [h |-> h, e |-> "InvalidContainer"]
  ELSE IF pointer = <<>> THEN [h |-> h, e |-> "CannotDeleteRoot"]
  ELSE [h |-> removeLoop(h, json, getJsonPointerSegments(pointer).segments, 1),
        e |-> "ok"]

(***************************************************************************)
(* Structural comparator (compare.ts)                                      *)
(***************************************************************************)
RECURSIVE deepEquals(_, _, _)

\* deepEquals without the comparison of the numbers of keys
deepEqualsNoKeyCount(h, a, b) ==
  IF strictEquals(a, b) THEN TRUE
  ELSE IF a.t = "null" \/ b.t = "null" THEN FALSE
  ELSE IF typeof(a) # typeof(b) THEN FALSE
  ELSE IF isArray(h, a) /\ isArray(h, b)
  THEN /\ Len(h[a.a].v) = Len(h[b.a].v)
       /\ \A i \in 1..Len(h[a.a].v) :
            \/ h[a.a].v[i].t = "hole"
            \/ deepEquals(h, h[a.a].v[i], getIndex(h[b.a], i - 1))
  ELSE IF isJsonObject(h, a) /\ isJsonObject(h, b)
  THEN \A i \in 1..Len(keys(h[a.a])) :
         LET key == keys(h[a.a])[i]
         IN  /\ hasKey(h[b.a], key)
             /\ deepEquals(h, getProp(h[a.a], key), getProp(h[b.a], key))
  ELSE FALSE

deepEquals(h, a, b) ==
  IF strictEquals(a, b) THEN TRUE
  ELSE IF a.t = "null" \/ b.t = "null" THEN FALSE
  ELSE IF typeof(a) # typeof(b) THEN FALSE
  ELSE IF isArray(h, a) /\ isArray(h, b)
  THEN /\ Len(h[a.a].v) = Len(h[b.a].v)
       \* a.every(...), which skips the holes of a
       /\ \A i \in 1..Len(h[a.a].v) :
            \/ h[a.a].v[i].t = "hole"
            \/ deepEquals(h, h[a.a].v[i], getIndex(h[b.a], i - 1))
  ELSE IF isJsonObject(h, a) /\ isJsonObject(h, b)
  THEN /\ Len(keys(h[a.a])) = Len(keys(h[b.a]))
       /\ \A i \in 1..Len(keys(h[a.a])) :
            LET key == keys(h[a.a])[i]
            IN  /\ hasKey(h[b.a], key)
                /\ deepEquals(h, getProp(h[a.a], key), getProp(h[b.a], key))
  ELSE FALSE

\* a patch operation; a field the operation does not have is undefined, and
\* from, when present, is a string value
Operation(op, path, value, from) ==
  [op |-> op, path |-> path, value |-> value, from |-> from]

\* [...new Set([...sourceKeys, ...targetKeys])]
allKeysOf(sourceKeys, targetKeys) ==
  sourceKeys
    \o SelectSeq(targetKeys,
                 LAMBDA k : \A i \in 1..Len(sourceKeys) : sourceKeys[i] # k)

RECURSIVE diff(_, _, _, _)
RECURSIVE diffElements(_, _, _, _, _, _)
RECURSIVE diffKeys(_, _, _, _, _, _)

\* the diff emitting the removes of trailing elements from the lowest index up
diffRemovesAscending(h, sourcePath, sourceValue, targetValue) ==
  IF deepEquals(h, sourceValue, targetValue) THEN <<>>
  ELSE IF \/ typeof(sourceValue) # typeof(targetValue)
          \/ sourceValue.t = "null" \/ targetValue.t = "null"
          \/ (~isJsonObject(h, sourceValue) /\ ~isJsonArray(h, sourceValue))
          \/ (~isJsonObject(h, targetValue) /\ ~isJsonArray(h, targetValue))
  THEN <<Operation("replace", sourcePath, targetValue, Undefined)>>
  ELSE IF isJsonArray(h, sourceValue) /\ isJsonArray(h, targetValue)
  THEN LET sourceLength == Len(h[sourceValue.a].v)
           targetLength == Len(h[targetValue.a].v)
           delta == IF sourceLength > targetLength
                    THEN sourceLength - targetLength
                    ELSE targetLength - sourceLength
           minLength == IF sourceLength < targetLength
                        THEN sourceLength ELSE targetLength
       IN  \* Math.abs(delta) > sourceValue.length / 2
           IF 2 * delta > sourceLength
           THEN <<Operation("replace", sourcePath, targetValue, Undefined)>>
           ELSE diffElements(h, sourcePath, sourceValue, targetValue, 0,
                             minLength)
                  \o [j \in 1..(targetLength - minLength) |->
                        Operation("add",
                                  sourcePath \o <<"/">>
                                    \o numToStr(minLength + j - 1),
                                  getIndex(h[targetValue.a], minLength + j - 1),
                                  Undefined)]
                  \o [j \in 1..(sourceLength - targetLength) |->
                        Operation("remove",
                                  sourcePath \o <<"/">>
                                    \o numToStr(targetLength + j - 1),
                                  Undefined, Undefined)]
  ELSE IF isJsonObject(h, sourceValue) /\ isJsonObject(h, targetValue)
  THEN diffKeys(h, sourcePath, sourceValue, targetValue,
                allKeysOf(keys(h[sourceValue.a]), keys(h[targetValue.a])), 1)
  ELSE <<>>

\* the diff replacing an array wholesale only when the lengths differ by
\* more than the whole length of the source
diffWholeLengthThreshold(h, sourcePath, sourceValue, targetValue) ==
  IF deepEquals(h, sourceValue, targetValue) THEN <<>>
  ELSE IF \/ typeof(sourceValue) # typeof(targetValue)
          \/ sourceValue.t = "null" \/ targetValue.t = "null"
          \/ (~isJsonObject(h, sourceValue) /\ ~isJsonArray(h, sourceValue))
          \/ (~isJsonObject(h, targetValue) /\ ~isJsonArray(h, targetValue))
  THEN <<Operation("replace", sourcePath, targetValue, Undefined)>>
  ELSE IF isJsonArray(h, sourceValue) /\ isJsonArray(h, targetValue)
  THEN LET sourceLength == Len(h[sourceValue.a].v)
           targetLength == Len(h[targetValue.a].v)
           delta == IF sourceLength > targetLength
                    THEN sourceLength - targetLength
                    ELSE targetLength - sourceLength
           minLength == IF sourceLength < targetLength
                        THEN sourceLength ELSE targetLength
       IN  \* Math.abs(delta) > sourceValue.length / 2
           IF delta > sourceLength
           THEN <<Operation("replace", sourcePath, targetValue, Undefined)>>
           ELSE diffElements(h, sourcePath, sourceValue, targetValue, 0,
                             minLength)
                  \o [j \in 1..(targetLength - minLength) |->
                        Operation("add",
                                  sourcePath \o <<"/">>
                                    \o numToStr(minLength + j - 1),
                                  getIndex(h[targetValue.a], minLength + j - 1),
                                  Undefined)]
                  \o [j \in 1..(sourceLength - targetLength) |->
                        Operation("remove",
                                  sourcePath \o <<"/">>
                                    \o numToStr(sourceLength - j),
                                  Undefined, Undefined)]
  ELSE IF isJsonObject(h, sourceValue) /\ isJsonObject(h, targetValue)
  THEN diffKeys(h, sourcePath, sourceValue, targetValue,
                allKeysOf(keys(h[sourceValue.a]), keys(h[targetValue.a])), 1)
  ELSE <<>>

\* the recursive diff of getJsonDiff; gives the operations it pushes
diff(h, sourcePath, sourceValue, targetValue) ==
  IF deepEquals(h, sourceValue, targetValue) THEN <<>>
  ELSE IF \/ typeof(sourceValue) # typeof(targetValue)
          \/ sourceValue.t = "null" \/ targetValue.t = "null"
          \/ (~isJsonObject(h, sourceValue) /\ ~isJsonArray(h, sourceValue))
          \/ (~isJsonObject(h, targetValue) /\ ~isJsonArray(h, targetValue))
  THEN <<Operation("replace", sourcePath, targetValue, Undefined)>>
  ELSE IF isJsonArray(h, sourceValue) /\ isJsonArray(h, targetValue)
  THEN LET sourceLength == Len(h[sourceValue.a].v)
           targetLength == Len(h[targetValue.a].v)
           delta == IF sourceLength > targetLength
                    THEN sourceLength - targetLength
                    ELSE targetLength - sourceLength
           minLength == IF sourceLength < targetLength
                        THEN sourceLength ELSE targetLength
       IN  \* Math.abs(delta) > sourceValue.length / 2
           IF 2 * delta > sourceLength
           THEN <<Operation("replace", sourcePath, targetValue, Undefined)>>
           ELSE diffElements(h, sourcePath, sourceValue, targetValue, 0,
                             minLength)
                  \o [j \in 1..(targetLength - minLength) |->
                        Operation("add",
                                  sourcePath \o <<"/">>
                                    \o numToStr(minLength + j - 1),
                                  getIndex(h[targetValue.a], minLength + j - 1),
                                  Undefined)]
                  \o [j \in 1..(sourceLength - targetLength) |->
                        Operation("remove",
                                  sourcePath \o <<"/">>
                                    \o numToStr(sourceLength - j),
                                  Undefined, Undefined)]
  ELSE IF isJsonObject(h, sourceValue) /\ isJsonObject(h, targetValue)
  THEN diffKeys(h, sourcePath, sourceValue, targetValue,
                allKeysOf(keys(h[sourceValue.a]), keys(h[targetValue.a])), 1)
  ELSE <<>>

\* for (let i = 0; i < minLength; i++) diff(`${sourcePath}/${i}`, ...)
diffElements(h, sourcePath, sourceValue, targetValue, i, minLength) ==
  IF i >= minLength THEN <<>>
  ELSE diff(h, sourcePath \o <<"/">> \o numToStr(i),
            getIndex(h[sourceValue.a], i), getIndex(h[targetValue.a], i))
         \o diffElements(h, sourcePath, sourceValue, targetValue, i + 1,
                         minLength)

\* the loop over the keys emitting a replace for a key the source lacks
diffKeysReplaceForAdded(h, sourcePath, sourceValue, targetValue, allKeys, i) ==
  IF i > Len(allKeys) THEN <<>>
  ELSE LET key == allKeys[i]
           encodedKey == replaceAll(replaceAll(key, <<"~">>, <<"~", "0">>),
                                    <<"/">>, <<"~", "1">>)
           keyPath == sourcePath \o <<"/">> \o encodedKey
           these ==
             IF ~hasKey(h[sourceValue.a], key)
             THEN <<Operation("replace", keyPath,
                              getProp(h[targetValue.a], key), Undefined)>>
             ELSE IF ~hasKey(h[targetValue.a], key)
             THEN <<Operation("remove", keyPath, Undefined, Undefined)>>
             ELSE diff(h, keyPath, getProp(h[sourceValue.a], key),
                       getProp(h[targetValue.a], key))
       IN  these \o diffKeys(h, sourcePath, sourceValue, targetValue,
                             allKeys, i + 1)

\* for (const key of allKeys) { ... }
diffKeys(h, sourcePath, sourceValue, targetValue, allKeys, i) ==
  IF i > Len(allKeys) THEN <<>>
  ELSE LET key == allKeys[i]
           encodedKey == replaceAll(replaceAll(key, <<"~">>, <<"~", "0">>),
                                    <<"/">>, <<"~", "1">>)
           keyPath == sourcePath \o <<"/">> \o encodedKey
           these ==
             IF ~hasKey(h[sourceValue.a], key)
             THEN <<Operation("add", keyPath,
                              getProp(h[targetValue.a], key), Undefined)>>
             ELSE IF ~hasKey(h[targetValue.a], key)
             THEN <<Operation("remove", keyPath, Undefined, Undefined)>>
             ELSE diff(h, keyPath, getProp(h[sourceValue.a], key),
                       getProp(h[targetValue.a], key))
       IN  these \o diffKeys(h, sourcePath, sourceValue, targetValue,
                             allKeys, i + 1)

getJsonDiff(h, source, target) == diff(h, <<>>, source, target)

(***************************************************************************)
(* Patch applier (compare.ts)                                              *)
(***************************************************************************)
\* applyOperation whose replace does not ask for the path to exist
applyOperationNoPathCheck(h, result, operation) ==
  CASE operation.op = "add" ->
         IF IsUndefined(operation.value) THEN [h |-> h, e |-> "MissingValue"]
         ELSE setJsonValueAtPointer(h, result, operation.path, operation.value)
    [] operation.op = "remove" ->
         LET segments == getJsonPointerSegments(operation.path)
             value == getJsonValueAtPointer(h, result, operation.path)
         IN  IF segments.e # "ok" THEN [h |-> h, e |-> segments.e]
             ELSE IF Len(segments.segments) = 0
             THEN [h |-> h, e |-> "CannotDeleteRoot"]
             ELSE IF IsThrow(value) THEN [h |-> h, e |-> value.e]
             ELSE IF IsUndefined(value) THEN [h |-> h, e |-> "PathNotFound"]
             ELSE removeJsonValueAtPointer(h, result, operation.path)
    [] operation.op = "replace" ->
         LET value == getJsonValueAtPointer(h, result, operation.path)
         IN  IF IsUndefined(operation.value)
             THEN [h |-> h, e |-> "MissingValue"]
             ELSE IF IsThrow(value) THEN [h |-> h, e |-> value.e]
             ELSE setJsonValueAtPointer(h, result, operation.path,
                                        operation.value)
    [] operation.op = "move" ->
         \* !operation.from: undefined or the empty string
         IF IsUndefined(operation.from) \/ operation.from.v = <<>>
         THEN [h |-> h, e |-> "MissingFrom"]
         ELSE LET value == getJsonValueAtPointer(h, result, operation.from.v)
                  removed == removeJsonValueAtPointer(h, result,
                                                      operation.from.v)
              IN  IF IsThrow(value) THEN [h |-> h, e |-> value.e]
                  ELSE IF IsUndefined(value)
                  THEN [h |-> h, e |-> "PathNotFound"]
                  ELSE IF removed.e # "ok" THEN removed
                  ELSE setJsonValueAtPointer(removed.h, result,
                                             operation.path, value)
    [] operation.op = "copy" ->
         IF IsUndefined(operation.from) \/ operation.from.v = <<>>
         THEN [h |-> h, e |-> "MissingFrom"]
         ELSE LET value == getJsonValueAtPointer(h, result, operation.from.v)
                  copiedValue == jsonClone(h, value)
              IN  IF IsThrow(value) THEN [h |-> h, e |-> value.e]
                  ELSE IF IsUndefined(value)
                  THEN [h |-> h, e |-> "PathNotFound"]
                  ELSE setJsonValueAtPointer(copiedValue.h, result,
                                             operation.path, copiedValue.r)
    [] operation.op = "test" ->
         LET value == getJsonValueAtPointer(h, result, operation.path)
         IN  IF IsThrow(value) THEN [h |-> h, e |-> value.e]
             ELSE IF ~deepEquals(h, value, operation.value)
             THEN [h |-> h, e |-> "TestFailed"]
             ELSE [h |-> h, e |-> "ok"]
    [] OTHER -> [h |-> h, e |-> "UnknownOperation"]

\* applyOperation whose move leaves the source where it is
applyOperationMoveKeepsSource(h, result, operation) ==
  CASE operation.op = "add" ->
         IF IsUndefined(operation.value) THEN [h |-> h, e |-> "MissingValue"]
         ELSE setJsonValueAtPointer(h, result, operation.path, operation.value)
    [] operation.op = "remove" ->
         LET segments == getJsonPointerSegments(operation.path)
             value == getJsonValueAtPointer(h, result, operation.path)
         IN  IF segments.e # "ok" THEN [h |-> h, e |-> segments.e]
             ELSE IF Len(segments.segments) = 0
             THEN [h |-> h, e |-> "CannotDeleteRoot"]
             ELSE IF IsThrow(value) THEN [h |-> h, e |-> value.e]
             ELSE IF IsUndefined(value) THEN [h |-> h, e |-> "PathNotFound"]
             ELSE removeJsonValueAtPointer(h, result, operation.path)
    [] operation.op = "replace" ->
         LET value == getJsonValueAtPointer(h, result, operation.path)
         IN  IF IsUndefined(operation.value)
             THEN [h |-> h, e |-> "MissingValue"]
             ELSE IF IsThrow(value) THEN [h |-> h, e |-> value.e]
             ELSE IF IsUndefined(value) THEN [h |-> h, e |-> "PathNotFound"]
             ELSE setJsonValueAtPointer(h, result, operation.path,
                                        operation.value)
    [] operation.op = "move" ->
         \* !operation.from: undefined or the empty string
         IF IsUndefined(operation.from) \/ operation.from.v = <<>>
         THEN [h |-> h, e |-> "MissingFrom"]
         ELSE LET value == getJsonValueAtPointer(h, result, operation.from.v)
                  removed == removeJsonValueAtPointer(h, result,
                                                      operation.from.v)
              IN  IF IsThrow(value) THEN [h |-> h, e |-> value.e]
                  ELSE IF IsUndefined(value)
                  THEN [h |-> h, e |-> "PathNotFound"]
                  ELSE setJsonValueAtPointer(h, result,
                                             operation.path, value)
    [] operation.op = "copy" ->
         IF IsUndefined(operation.from) \/ operation.from.v = <<>>
         THEN [h |-> h, e |-> "MissingFrom"]
         ELSE LET value == getJsonValueAtPointer(h, result, operation.from.v)
                  copiedValue == jsonClone(h, value)
              IN  IF IsThrow(value) THEN [h |-> h, e |-> value.e]
                  ELSE IF IsUndefined(value)
                  THEN [h |-> h, e |-> "PathNotFound"]
                  ELSE setJsonValueAtPointer(copiedValue.h, result,
                                             operation.path, copiedValue.r)
    [] operation.op = "test" ->
         LET value == getJsonValueAtPointer(h, result, operation.path)
         IN  IF IsThrow(value) THEN [h |-> h, e |-> value.e]
             ELSE IF ~deepEquals(h, value, operation.value)
             THEN [h |-> h, e |-> "TestFailed"]
             ELSE [h |-> h, e |-> "ok"]
    [] OTHER -> [h |-> h, e |-> "UnknownOperation"]

\* applyOperation whose copy inserts the value itself, not a copy of it
applyOperationCopyByReference(h, result, operation) ==
  CASE operation.op = "add" ->
         IF IsUndefined(operation.value) THEN [h |-> h, e |-> "MissingValue"]
         ELSE setJsonValueAtPointer(h, result, operation.path, operation.value)
    [] operation.op = "remove" ->
         LET segments == getJsonPointerSegments(operation.path)
             value == getJsonValueAtPointer(h, result, operation.path)
         IN  IF segments.e # "ok" THEN [h |-> h, e |-> segments.e]
             ELSE IF Len(segments.segments) = 0
             THEN [h |-> h, e |-> "CannotDeleteRoot"]
             ELSE IF IsThrow(value) THEN [h |-> h, e |-> value.e]
             ELSE IF IsUndefined(value) THEN [h |-> h, e |-> "PathNotFound"]
             ELSE removeJsonValueAtPointer(h, result, operation.path)
    [] operation.op = "replace" ->
         LET value == getJsonValueAtPointer(h, result, operation.path)
         IN  IF IsUndefined(operation.value)
             THEN [h |-> h, e |-> "MissingValue"]
             ELSE IF IsThrow(value) THEN [h |-> h, e |-> value.e]
             ELSE IF IsUndefined(value) THEN [h |-> h, e |-> "PathNotFound"]
             ELSE setJsonValueAtPointer(h, result, operation.path,
                                        operation.value)
    [] operation.op = "move" ->
         \* !operation.from: undefined or the empty string
         IF IsUndefined(operation.from) \/ operation.from.v = <<>>
         THEN [h |-> h, e |-> "MissingFrom"]
         ELSE LET value == getJsonValueAtPointer(h, result, operation.from.v)
                  removed == removeJsonValueAtPointer(h, result,
                                                      operation.from.v)
              IN  IF IsThrow(value) THEN [h |-> h, e |-> value.e]
                  ELSE IF IsUndefined(value)
                  THEN [h |-> h, e |-> "PathNotFound"]
                  ELSE IF removed.e # "ok" THEN removed
                  ELSE setJsonValueAtPointer(removed.h, result,
                                             operation.path, value)
    [] operation.op = "copy" ->
         IF IsUndefined(operation.from) \/ operation.from.v = <<>>
         THEN [h |-> h, e |-> "MissingFrom"]
         ELSE LET value == getJsonValueAtPointer(h, result, operation.from.v)
                  copiedValue == jsonClone(h, value)
              IN  IF IsThrow(value) THEN [h |-> h, e |-> value.e]
                  ELSE IF IsUndefined(value)
                  THEN [h |-> h, e |-> "PathNotFound"]
                  ELSE setJsonValueAtPointer(h, result,
                                             operation.path, value)
    [] operation.op = "test" ->
         LET value == getJsonValueAtPointer(h, result, operation.path)
         IN  IF IsThrow(value) THEN [h |-> h, e |-> value.e]
             ELSE IF ~deepEquals(h, value, operation.value)
             THEN [h |-> h, e |-> "TestFailed"]
             ELSE [h |-> h, e |-> "ok"]
    [] OTHER -> [h |-> h, e |-> "UnknownOperation"]

\* one turn of the switch of applyJsonPatch on the document result; gives
\* the heap and "ok" or the error raised
applyOperation(h, result, operation) ==
  CASE operation.op = "add" ->
         IF IsUndefined(operation.value) THEN [h |-> h, e |-> "MissingValue"]
         ELSE setJsonValueAtPointer(h, result, operation.path, operation.value)
    [] operation.op = "remove" ->
         LET segments == getJsonPointerSegments(operation.path)
             value == getJsonValueAtPointer(h, result, operation.path)
         IN  IF segments.e # "ok" THEN [h |-> h, e |-> segments.e]
             ELSE IF Len(segments.segments) = 0
             THEN [h |-> h, e |-> "CannotDeleteRoot"]
             ELSE IF IsThrow(value) THEN [h |-> h, e |-> value.e]
             ELSE IF IsUndefined(value) THEN [h |-> h, e |-> "PathNotFound"]
             ELSE removeJsonValueAtPointer(h, result, operation.path)
    [] operation.op = "replace" ->
         LET value == getJsonValueAtPointer(h, result, operation.path)
         IN  IF IsUndefined(operation.value)
             THEN [h |-> h, e |-> "MissingValue"]
             ELSE IF IsThrow(value) THEN [h |-> h, e |-> value.e]
             ELSE IF IsUndefined(value) THEN [h |-> h, e |-> "PathNotFound"]
             ELSE setJsonValueAtPointer(h, result, operation.path,
                                        operation.value)
    [] operation.op = "move" ->
         \* !operation.from: undefined or the empty string
         IF IsUndefined(operation.from) \/ operation.from.v = <<>>
         THEN [h |-> h, e |-> "MissingFrom"]
         ELSE LET value == getJsonValueAtPointer(h, result, operation.from.v)
                  removed == removeJsonValueAtPointer(h, result,
                                                      operation.from.v)
              IN  IF IsThrow(value) THEN [h |-> h, e |-> value.e]
                  ELSE IF IsUndefined(value)
                  THEN [h |-> h, e |-> "PathNotFound"]
                  ELSE IF removed.e # "ok" THEN removed
                  ELSE setJsonValueAtPointer(removed.h, result,
                                             operation.path, value)
    [] operation.op = "copy" ->
         IF IsUndefined(operation.from) \/ operation.from.v = <<>>
         THEN [h |-> h, e |-> "MissingFrom"]
         ELSE LET value == getJsonValueAtPointer(h, result, operation.from.v)
                  copiedValue == jsonClone(h, value)
              IN  IF IsThrow(value) THEN [h |-> h, e |-> value.e]
                  ELSE IF IsUndefined(value)
                  THEN [h |-> h, e |-> "PathNotFound"]
                  ELSE setJsonValueAtPointer(copiedValue.h, result,
                                             operation.path, copiedValue.r)
    [] operation.op = "test" ->
         LET value == getJsonValueAtPointer(h, result, operation.path)
         IN  IF IsThrow(value) THEN [h |-> h, e |-> value.e]
             ELSE IF ~deepEquals(h, value, operation.value)
             THEN [h |-> h, e |-> "TestFailed"]
             ELSE [h |-> h, e |-> "ok"]
    [] OTHER -> [h |-> h, e |-> "UnknownOperation"]

\* for (const operation of operations) { ... }
RECURSIVE applyLoop(_, _, _, _)
applyLoop(h, result, operations, i) ==
  IF i > Len(operations) THEN [h |-> h, r |-> result, e |-> "ok"]
  ELSE LET step == applyOperation(h, result, operations[i])
       IN  IF step.e # "ok" THEN [h |-> step.h, r |-> Undefined, e |-> step.e]
           ELSE applyLoop(step.h, result, operations, i + 1)

\* applyJsonPatch(json, operations): the heap, the returned document (r) and
\* "ok" or the error raised
applyJsonPatch(h, json, operations) ==
  LET result == jsonClone(h, json)
  IN  applyLoop(result.h, result.r, operations, 1)

(***************************************************************************)
(* Inputs: JSON documents, pointers and values drawn from bounded sets     *)
(***************************************************************************)
\* the object with the given keys, inserted in sort order, so that its
\* properties stand in the order a JavaScript object keeps them
RECURSIVE objFromKeys(_, _)
objFromKeys(ks, f) ==
  IF ks = <<>> THEN Obj(<<>>)
  ELSE setProp(objFromKeys(SubSeq(ks, 1, Len(ks) - 1), f),
               ks[Len(ks)], f[ks[Len(ks)]])

\* every object with at most n of the keys Ks and values in Vs
ObjsOver(Ks, Vs, n) ==
  UNION {{objFromKeys(sortSet(S), f) : f \in [S -> Vs]} :
           S \in {T \in SUBSET Ks : Cardinality(T) <= n}}

RECURSIVE SeqsOfLen(_, _)
SeqsOfLen(Vs, n) ==
  IF n = 0 THEN {<<>>}
  ELSE {<<x>> \o s : x \in Vs, s \in SeqsOfLen(Vs, n - 1)}

\* every array of at most n slots with elements in Vs
ArrsOver(Vs, n) == {Arr(s) : s \in UNION {SeqsOfLen(Vs, k) : k \in 0..n}}

\* the pointer with the given (decoded) segments
RECURSIVE pointerOf(_)
pointerOf(segments) ==
  IF segments = <<>> THEN <<>>
  ELSE <<"/">> \o encodePointer(Head(segments)) \o pointerOf(Tail(segments))

\* every pointer of at most n segments taken from Ss
PointersOver(Ss, n) ==
  {pointerOf(s) : s \in UNION {SeqsOfLen(Ss, k) : k \in 0..n}}

(***************************************************************************)
(* The segment codec applied to every string up to MaxStrLen               *)
(***************************************************************************)
InitCodec ==
  /\ pc = "start"
  /\ heap = <<>>
  /\ args \in {[s |-> s] : s \in StrsUpTo(MaxStrLen)}
  /\ ret = None

Encode ==
  /\ pc = "start"
  /\ pc' = "encoded"
  /\ ret' = encodePointer(args.s)
  /\ UNCHANGED <<heap, args>>

Decode ==
  /\ pc = "encoded"
  /\ pc' = "decoded"
  /\ ret' = decodePointer(ret)
  /\ UNCHANGED <<heap, args>>

NextCodec == Encode \/ Decode

SpecCodec == InitCodec /\ [][NextCodec]_vars

\* C4: decoding an encoded segment gives the segment back
C4_RoundTripEscaping == pc = "decoded" => ret = args.s

\* a segment holding both metacharacters, with "~1" as a literal, has been
\* encoded and decoded
C4_Witness ==
  /\ pc = "decoded"
  /\ args.s = <<"~", "1", "/">>
  /\ ret = args.s

(***************************************************************************)
(* The mutators applied to a document                                      *)
(*                                                                         *)
(* A caller holds a JSON object and calls setJsonValueAtPointer or         *)
(* removeJsonValueAtPointer (the latter possibly twice) with one pointer.  *)
(* args keeps the call's inputs and the heap as it was before the call.    *)
(***************************************************************************)
Scalars == {Null, Num(1)}

Elems == {Num(1), Num(2)}

InnerKeys == {<<"a">>, <<"1">>}

Containers == ArrsOver(Elems, MaxArrLen) \cup ObjsOver(InnerKeys, Scalars, 2)

TopKeys == {<<"a">>, <<"1">>, <<"1", "a">>}

\* the documents: at most two top-level keys, at most one of them holding
\* a container
MutDocs ==
  ObjsOver(TopKeys, Scalars, 2)
    \cup UNION {{setProp(d, k, c) :
                   c \in Containers,
                   k \in {j \in TopKeys : ~hasKey(d, j)}} :
                d \in ObjsOver(TopKeys, Scalars, 1)}

MutSegs == {<<"a">>, <<"0">>, <<"1">>, <<"1", "a">>, <<>>}

MutPointers == PointersOver(MutSegs, MaxSegs)

MutValues == {Num(2), Arr(<<Num(1)>>)}

InitMut ==
  /\ pc = "start"
  /\ \E doc \in MutDocs, pointer \in MutPointers :
       LET d == alloc(<<>>, doc)
       IN  /\ heap = d.h
           /\ args = [obj |-> d.r, pointer |-> pointer, h |-> d.h]
  /\ ret = None

Set ==
  /\ pc = "start"
  /\ \E x \in MutValues :
       LET v == alloc(heap, x)
           r == setJsonValueAtPointer(v.h, args.obj, args.pointer, v.r)
       IN  /\ heap' = r.h
           /\ ret' = [e |-> r.e, value |-> v.r]
  /\ pc' = "set"
  /\ UNCHANGED args

Remove ==
  /\ pc = "start"
  /\ LET r == removeJsonValueAtPointer(heap, args.obj, args.pointer)
     IN  /\ heap' = r.h
         /\ ret' = [e |-> r.e]
  /\ pc' = "removed"
  /\ UNCHANGED args

RemoveAgain ==
  /\ pc = "removed"
  /\ LET r == removeJsonValueAtPointer(heap, args.obj, args.pointer)
     IN  /\ heap' = r.h
         /\ ret' = [e |-> r.e]
  /\ pc' = "removedTwice"
  /\ UNCHANGED args

NextMut == Set \/ Remove \/ RemoveAgain

SpecMut == InitMut /\ [][NextMut]_vars

\* the decoded segments of the call's pointer
Segs == getJsonPointerSegments(args.pointer).segments

\* the value stored at the end of the given segments below x: own properties
\* of objects by name, slots of arrays by decimal index
RECURSIVE valueAt(_, _, _)
valueAt(h, x, segments) ==
  IF segments = <<>> THEN x
  ELSE IF ~IsRef(x) THEN Undefined
  ELSE IF h[x.a].t = "object"
  THEN valueAt(h, getProp(h[x.a], Head(segments)), Tail(segments))
  ELSE IF isDigits(Head(segments))
  THEN valueAt(h, getIndex(h[x.a], parseInt(Head(segments))), Tail(segments))
  ELSE Undefined

\* the value the first n segments lead to in the document before the call
Before(n) == valueAt(args.h, args.obj, SubSeq(Segs, 1, n))

\* the value the first n segments lead to in the document now
Now(n) == valueAt(heap, args.obj, SubSeq(Segs, 1, n))

\* before the call a node on the path, short of the final segment, was a
\* scalar or null
BlockedByScalar ==
  \E n \in 1..(Len(Segs) - 1) :
    ~IsRef(Before(n)) /\ ~IsUndefined(Before(n))

\* before the call every node on the path, short of the final segment, was
\* an object or did not exist
ThroughObjects ==
  \A n \in 0..(Len(Segs) - 1) :
    IsUndefined(Before(n)) \/ isJsonObject(args.h, Before(n))

\* no segment that follows a missing node begins with a digit, so that set is
\* to make objects only
AsksForObjects ==
  \A n \in 1..(Len(Segs) - 1) :
    IsUndefined(Before(n)) => parseInt(Segs[n + 1]) = NaN

\* C2: after set(o, p, x), get(o, p) is deep-equal to x unless a scalar
\* blocked the path (stated for the pointers other than the root pointers
\* whose path meets no array and asks for none)
C2_SetGetConsistency ==
  (/\ pc = "set"
   /\ args.pointer \notin {<<>>, <<"/">>}
   /\ ThroughObjects
   /\ AsksForObjects
   /\ ~BlockedByScalar)
  => LET got == getJsonValueAtPointer(heap, args.obj, args.pointer)
     IN  ret.e = "ok" /\ ~IsThrow(got) /\ deepEquals(heap, got, ret.value)

\* C5: removing at a pointer that does not resolve raises nothing and leaves
\* the document as it was, the first time and the second
C5_RemoveAbsentIsNoOp ==
  (/\ pc \in {"removed", "removedTwice"}
   /\ args.pointer # <<>>
   /\ IsUndefined(getJsonValueAtPointer(args.h, args.obj, args.pointer)))
  => ret.e = "ok" /\ view(heap, args.obj) = view(args.h, args.obj)

\* C7: a set whose path is blocked by a scalar or null returns without error
\* and leaves the document as it was
C7_BlockedSetIsNoOp ==
  (pc = "set" /\ BlockedByScalar)
  => ret.e = "ok" /\ view(heap, args.obj) = view(args.h, args.obj)

\* C8: where an object on the path lacked the next node, set has made one:
\* an array when the segment after it is a non-negative integer, an object
\* otherwise
C8_CreatesMissingContainers ==
  (pc = "set" /\ ThroughObjects /\ ~BlockedByScalar)
  => \A n \in 1..(Len(Segs) - 1) :
       IsUndefined(Before(n))
       => /\ IsRef(Now(n))
          /\ heap[Now(n).a].t
               = (IF isDigits(Segs[n + 1]) THEN "array" ELSE "object")

\* the parent of the pointer's target before the call, and the index the
\* final segment names
Parent == Before(Len(Segs) - 1)

LastIndex == parseInt(Segs[Len(Segs)])

\* the call is a remove at an existing index of an array
RemovesElement ==
  /\ pc = "removed"
  /\ Len(Segs) >= 1
  /\ isJsonArray(args.h, Parent)
  /\ isDigits(Segs[Len(Segs)])
  /\ LastIndex < Len(args.h[Parent.a].v)

\* C9: remove at index i of an array of length n splices that one element
\* out: length n-1, the elements before i unchanged, those after i moved
\* one place left, and no other node touched
C9_RemoveSplices ==
  RemovesElement
  => LET old == args.h[Parent.a].v
         new == heap[Parent.a].v
     IN  /\ ret.e = "ok"
         /\ Len(new) = Len(old) - 1
         /\ \A j \in 1..LastIndex : new[j] = old[j]
         /\ \A j \in (LastIndex + 1)..Len(new) : new[j] = old[j + 1]
         /\ \A a \in DOMAIN heap : a # Parent.a => heap[a] = args.h[a]

\* an element with two elements behind it has been removed
C9_Witness ==
  /\ RemovesElement
  /\ LastIndex = 0
  /\ view(args.h, Parent) = Arr(<<Num(1), Num(2), Num(1)>>)
  /\ view(heap, Parent) = Arr(<<Num(2), Num(1)>>)

(***************************************************************************)
(* The navigator applied to a value: enumerate its pointers, then resolve  *)
(* each of them                                                            *)
(***************************************************************************)
NavKeys == {<<"a">>, <<"1">>, <<>>, <<"/">>, <<"~">>, <<"~", "1">>}

NavInner ==
  Scalars \cup ArrsOver(Scalars, MaxArrLen)
    \cup ObjsOver({<<>>, <<"~", "1">>}, {Num(1)}, 1)

\* the values: scalars, arrays and objects, one level of nesting
NavValues ==
  Scalars \cup ArrsOver(NavInner, 1) \cup ObjsOver(NavKeys, NavInner, 2)

InitNav ==
  /\ pc = "start"
  /\ \E v \in NavValues :
       LET d == alloc(<<>>, v)
       IN  /\ heap = d.h
           /\ args = [obj |-> d.r, h |-> d.h]
  /\ ret = None

GetAll ==
  /\ pc = "start"
  /\ pc' = "enumerated"
  /\ ret' = [pointers |-> getAllJsonPointers(heap, args.obj, <<>>)]
  /\ UNCHANGED <<heap, args>>

GetEach ==
  /\ pc = "enumerated"
  /\ pc' = "resolved"
  /\ ret' = [pointers |-> ret.pointers,
             values |-> [i \in 1..Len(ret.pointers) |->
                           getJsonValueAtPointer(heap, args.obj,
                                                 ret.pointers[i])]]
  /\ UNCHANGED <<heap, args>>

NextNav == GetAll \/ GetEach

SpecNav == InitNav /\ [][NextNav]_vars

\* the locations of a value: the key and index paths that exist below it
RECURSIVE Paths(_, _)
Paths(h, x) ==
  IF ~IsRef(x) THEN {<<>>}
  ELSE {<<>>}
         \cup UNION {{<<IF h[x.a].t = "array" THEN numToStr(i - 1)
                        ELSE h[x.a].v[i].k>> \o q :
                        q \in Paths(h, children(h[x.a])[i])} :
                     i \in 1..Len(h[x.a].v)}

\* pointer i of the enumeration resolved to the value stored at the location
\* it names
ResolvesToStored(i) ==
  /\ ~IsThrow(ret.values[i])
  /\ ~IsUndefined(ret.values[i])
  /\ \E q \in Paths(heap, args.obj) :
       /\ pointerOf(q) = ret.pointers[i]
       /\ ret.values[i] = valueAt(heap, args.obj, q)

\* C3 as stated: for every JSON value v and every p of getAllJsonPointers(v),
\* getJsonValueAtPointer(v, p) is defined and is the value stored there
C3_EveryPointerResolves ==
  pc = "resolved" => \A i \in 1..Len(ret.pointers) : ResolvesToStored(i)

\* C3 amended: for every JSON value v and every p of getAllJsonPointers(v),
\* getJsonValueAtPointer(v, p) is defined and is the value stored there,
\* provided p is "" or v is a JSON object and p is not "/"
C3_ObjectPointersResolve ==
  pc = "resolved"
  => \A i \in 1..Len(ret.pointers) :
       (\/ ret.pointers[i] = <<>>
        \/ (isJsonObject(heap, args.obj) /\ ret.pointers[i] # <<"/">>))
       => ResolvesToStored(i)

\* the pointers of an object with the key "~1" holding an array have been
\* resolved, the array's element among them
C3_Witness ==
  /\ pc = "resolved"
  /\ isJsonObject(heap, args.obj)
  /\ \E i \in 1..Len(ret.pointers) :
       /\ ret.pointers[i] = <<"/", "~", "0", "1", "/", "0">>
       /\ ret.values[i] = Num(1)

(***************************************************************************)
(* getAllJsonPointers applied to any value, undefined and strings included *)
(***************************************************************************)
EnumValues == NavValues \cup {Undefined, Str(<<"a">>)}

InitEnum ==
  /\ pc = "start"
  /\ \E v \in EnumValues :
       LET d == alloc(<<>>, v)
       IN  /\ heap = d.h
           /\ args = [obj |-> d.r, h |-> d.h]
  /\ ret = None

NextEnum == GetAll

SpecEnum == InitEnum /\ [][NextEnum]_vars

\* C11: getAllJsonPointers(v) is strictly ascending (sorted, no duplicate),
\* holds exactly the pointers of the locations of v (the root, every object
\* member under its escaped key, every array element under its index), one
\* for each, and is [""] for null, undefined and primitives
C11_CompleteSortedEnumeration ==
  pc = "enumerated"
  => /\ \A i \in 1..(Len(ret.pointers) - 1) :
          strLess(ret.pointers[i], ret.pointers[i + 1])
     /\ {ret.pointers[i] : i \in 1..Len(ret.pointers)}
          = {pointerOf(q) : q \in Paths(heap, args.obj)}
     /\ Len(ret.pointers) = Cardinality(Paths(heap, args.obj))
     /\ (~IsRef(args.obj) => ret.pointers = <<<<>>>>)

\* the pointers of an object whose keys "/" and "a" come in the other order
\* once escaped, the first holding an array, have been enumerated
C11_Witness ==
  /\ pc = "enumerated"
  /\ ret.pointers = <<<<>>, <<"/", "a">>, <<"/", "~", "1">>,
                      <<"/", "~", "1", "/", "0">>>>

(***************************************************************************)
(* getJsonValueAtPointer applied to any value and any string               *)
(***************************************************************************)
GetValues == EnumValues

\* the pointer strings: the two root pointers, pointers of one and two
\* segments, and strings that are no pointers
GetPointers ==
  PointersOver({<<"a">>, <<"0">>, <<>>}, MaxSegs)
    \cup {<<"a">>, <<"0">>, <<"a", "/">>, <<"~">>}

InitGet ==
  /\ pc = "start"
  /\ \E v \in GetValues, pointer \in GetPointers :
       LET d == alloc(<<>>, v)
       IN  /\ heap = d.h
           /\ args = [obj |-> d.r, pointer |-> pointer, h |-> d.h]
  /\ ret = None

Get ==
  /\ pc = "start"
  /\ pc' = "got"
  /\ ret' = [value |-> getJsonValueAtPointer(heap, args.obj, args.pointer)]
  /\ UNCHANGED <<heap, args>>

NextGet == Get

SpecGet == InitGet /\ [][NextGet]_vars

\* the root value is a primitive, null, undefined or an array
RootIsNoObject == ~IsRef(args.obj) \/ heap[args.obj.a].t = "array"

\* C12: getJsonValueAtPointer gives the value itself for "" and "/",
\* whatever the value; for any other pointer it raises when the root is a
\* primitive, null or an array
C12_RootOrRaise ==
  pc = "got"
  => /\ (args.pointer \in {<<>>, <<"/">>} => ret.value = args.obj)
     /\ (args.pointer \notin {<<>>, <<"/">>} /\ RootIsNoObject
           => IsThrow(ret.value))

\* an element of an array root has been asked for, and the call raised
C12_Witness ==
  /\ pc = "got"
  /\ args.pointer = <<"/", "0">>
  /\ view(heap, args.obj) = Arr(<<Num(1)>>)
  /\ IsThrow(ret.value)

(***************************************************************************)
(* The mutator called with arguments of every kind: containers that are    *)
(* no objects, values that are no JSON values, strings that are no         *)
(* pointers, and containers and values that contain themselves.  objKind   *)
(* and valueKind record how the argument was built.                        *)
(***************************************************************************)
\* the containers, each with the heap that holds it
GuardContainers ==
  {[h |-> alloc(<<>>, t).h, obj |-> alloc(<<>>, t).r, objKind |-> "object"] :
     t \in {Obj(<<Entry(<<"a">>, Num(1))>>),
            Obj(<<Entry(<<"a">>, Obj(<<Entry(<<"a">>, Num(1))>>))>>)}}
    \cup {[h |-> alloc(<<>>, t).h, obj |-> alloc(<<>>, t).r,
           objKind |-> "noObject"] :
            t \in {Null, Num(1), Str(<<"a">>), Undefined, Arr(<<Num(1)>>),
                   Obj(<<Entry(<<"a">>, Undefined)>>)}}
    \* obj.a = obj;  obj.a = {a: obj};  obj.a = [obj];
    \* obj = {"1": undefined, a: obj}
    \cup {[h |-> <<Obj(<<Entry(<<"a">>, Ref(1))>>)>>,
           obj |-> Ref(1), objKind |-> "cyclic"],
          [h |-> <<Obj(<<Entry(<<"a">>, Ref(2))>>),
                   Obj(<<Entry(<<"a">>, Ref(1))>>)>>,
           obj |-> Ref(1), objKind |-> "cyclic"],
          [h |-> <<Obj(<<Entry(<<"a">>, Ref(2))>>), Arr(<<Ref(1)>>)>>,
           obj |-> Ref(1), objKind |-> "cyclic"],
          [h |-> <<Obj(<<Entry(<<"1">>, Undefined),
                         Entry(<<"a">>, Ref(1))>>)>>,
           obj |-> Ref(1), objKind |-> "cyclic"]}

\* the values for a container, each with the heap that holds both
GuardValues(c) ==
  {[h |-> alloc(c.h, t).h, value |-> alloc(c.h, t).r, valueKind |-> "valid"] :
     t \in {Num(2), Obj(<<>>)}}
    \cup {[h |-> alloc(c.h, t).h, value |-> alloc(c.h, t).r,
           valueKind |-> "invalid"] :
            t \in {Undefined, Arr(<<Num(1), Undefined>>),
                   Obj(<<Entry(<<"a">>, Undefined)>>)}}
    \* value = [value]
    \cup {[h |-> Append(c.h, Arr(<<Ref(Len(c.h) + 1)>>)),
           value |-> Ref(Len(c.h) + 1), valueKind |-> "cyclic"]}
    \* the container itself
    \cup (IF c.objKind = "object"
          THEN {[h |-> c.h, value |-> c.obj, valueKind |-> "valid"]}
          ELSE {})

\* pointers of up to MaxSegs + 1 segments, and strings that are no pointers
GuardPointers ==
  PointersOver({<<"a">>, <<"0">>}, MaxSegs + 1) \cup {<<"a">>, <<"a", "/", "a">>}

InitGuard ==
  /\ pc = "start"
  /\ \E c \in GuardContainers, pointer \in GuardPointers :
       \E v \in GuardValues(c) :
         /\ heap = v.h
         /\ args = [obj |-> c.obj, pointer |-> pointer, value |-> v.value,
                    h |-> v.h, objKind |-> c.objKind,
                    valueKind |-> v.valueKind]
  /\ ret = None

\* setJsonValueAtPointer(obj, pointer, value) with the value given
SetGiven ==
  /\ pc = "start"
  /\ LET r == setJsonValueAtPointer(heap, args.obj, args.pointer, args.value)
     IN  /\ heap' = r.h
         /\ ret' = [e |-> r.e, value |-> args.value]
  /\ pc' = "set"
  /\ UNCHANGED args

NextGuard == SetGiven \/ Remove \/ RemoveAgain

SpecGuard == InitGuard /\ [][NextGuard]_vars

\* the string given as pointer is neither empty nor begins with '/'
InvalidPointerGiven == args.pointer # <<>> /\ Head(args.pointer) # "/"

\* C13: set raises and leaves the container as it was when the value is no
\* JSON value (undefined, or holding undefined, or holding itself), when
\* the container is no JSON object, or when the string is no pointer
C13_SetRejectsInvalid ==
  (/\ pc = "set"
   /\ \/ args.valueKind \in {"invalid", "cyclic"}
      \/ args.objKind \in {"noObject", "cyclic"}
      \/ InvalidPointerGiven)
  => ret.e # "ok" /\ heap = args.h

\* undefined has been set into a valid object at a valid pointer, and the
\* call raised
C13_Witness ==
  /\ pc = "set"
  /\ args.objKind = "object"
  /\ args.pointer = <<"/", "a">>
  /\ IsUndefined(args.value)
  /\ ret.e = "InvalidValue"

\* before the call the path of the pointer, short of its final segment,
\* came to the same container twice
PathRevisits ==
  \E m, n \in 0..(Len(Segs) - 1) :
    m < n /\ IsRef(Before(m)) /\ Before(m) = Before(n)

\* C14: a set of a JSON value at a pointer whose path comes back to a
\* container it already visited fails with CircularReference and writes
\* nothing
C14_CycleIsDetected ==
  (/\ pc = "set"
   /\ args.valueKind = "valid"
   /\ ~InvalidPointerGiven
   /\ PathRevisits)
  => ret.e = "CircularReference" /\ heap = args.h

EqScalars == {Null, Num(1), Num(2), Str(<<"a">>), Str(<<"1">>)}

EqKeys == {<<"a">>, <<"~">>, <<"1">>}

EqInner ==
  {Null, Num(1)} \cup ArrsOver({Num(1)}, 1) \cup ObjsOver({<<"a">>}, {Num(1)}, 1)

\* an object with its properties in the opposite order
reversed(o) == Obj([i \in 1..Len(o.v) |-> o.v[Len(o.v) + 1 - i]])

\* the values compared: scalars of three types, arrays and objects with one
\* level of nesting, and objects that differ in property order only
EqValues ==
  EqScalars \cup ArrsOver({Null, Num(1), Num(2)}, MaxArrLen)
    \cup ArrsOver(EqInner, 1)
    \cup ObjsOver(EqKeys, EqInner, 2)
    \cup {reversed(o) : o \in ObjsOver({<<"a">>, <<"~">>}, {Null, Num(1)}, 2)}

InitEq ==
  /\ pc = "start"
  /\ \E a \in EqValues, b \in EqValues :
       LET x == alloc(<<>>, a)
           y == alloc(x.h, b)
           z == alloc(y.h, a)
       IN  /\ heap = z.h
           /\ args = [a |-> x.r, b |-> y.r, a2 |-> z.r]
  /\ ret = None

\* deepEquals(a, b), deepEquals(b, a), deepEquals(a, a) and deepEquals of a
\* with a separate copy of itself
Compare ==
  /\ pc = "start"
  /\ pc' = "compared"
  /\ ret' = [ab |-> deepEquals(heap, args.a, args.b),
             ba |-> deepEquals(heap, args.b, args.a),
             aa |-> deepEquals(heap, args.a, args.a),
             copy |-> deepEquals(heap, args.a, args.a2)]
  /\ UNCHANGED <<heap, args>>

NextEq == Compare

SpecEq == InitEq /\ [][NextEq]_vars

DiffVals ==
  Scalars \cup ArrsOver(Elems, MaxDiffLen) \cup ObjsOver({<<"a">>}, Scalars, 1)

\* the documents: the key "a" with a scalar, an array or an object, and
\* possibly the key "/" with a scalar
DiffDocs ==
  ObjsOver({<<"a">>}, DiffVals, 1)
    \cup {setProp(d, <<"/">>, x) :
            d \in ObjsOver({<<"a">>}, DiffVals, 1), x \in Scalars}

InitDiff ==
  /\ pc = "start"
  /\ \E a \in DiffDocs, b \in DiffDocs :
       LET x == alloc(<<>>, a)
           y == alloc(x.h, b)
       IN  /\ heap = y.h
           /\ args = [source |-> x.r, target |-> y.r, h |-> y.h]
  /\ ret = None

Diff ==
  /\ pc = "start"
  /\ pc' = "diffed"
  /\ ret' = [operations |-> getJsonDiff(heap, args.source, args.target)]
  /\ UNCHANGED <<heap, args>>

Patch ==
  /\ pc = "diffed"
  /\ LET p == applyJsonPatch(heap, args.source, ret.operations)
     IN  /\ heap' = p.h
         /\ ret' = [operations |-> ret.operations, r |-> p.r, e |-> p.e]
  /\ pc' = "patched"
  /\ UNCHANGED args

NextDiff == Diff \/ Patch

SpecDiff == InitDiff /\ [][NextDiff]_vars

\* C1: applying getJsonDiff(a, b) to a gives a document deep-equal to b
C1_DiffPatchInverse ==
  pc = "patched" => ret.e = "ok" /\ deepEquals(heap, ret.r, args.target)

(***************************************************************************)
(* applyJsonPatch applied to a document and an operation list              *)
(*                                                                         *)
(* The caller builds the list one operation at a time, then calls          *)
(* applyJsonPatch.  The value of an operation is a scalar, a new object of *)
(* the caller's, or an object or array the caller's document already       *)
(* holds (the caller passes doc.a as the value).                           *)
(***************************************************************************)
PatchDocs ==
  {Obj(<<Entry(<<"a">>, Arr(<<Num(1), Num(2)>>))>>),
   Obj(<<Entry(<<"a">>, Obj(<<Entry(<<"a">>, Num(1))>>))>>),
   Obj(<<Entry(<<"a">>, Num(1)), Entry(<<"b">>, Obj(<<>>))>>)}

P(segments) == pointerOf(segments)

\* the operations that carry no container value
PlainOperations ==
  {Operation(op, P(path), Num(2), Undefined) :
     op \in {"add"},
     path \in {<<<<"b">>>>, <<<<"b">>, <<"a">>>>, <<<<"a">>, <<"0">>>>}}
    \cup {Operation("replace", P(path), Num(2), Undefined) :
            path \in {<<<<"a">>>>, <<<<"b">>>>}}
    \cup {Operation("remove", P(path), Undefined, Undefined) :
            path \in {<<<<"a">>>>, <<<<"a">>, <<"0">>>>, <<<<"b">>>>}}
    \cup {Operation("move", P(<<<<"b">>>>), Undefined, Str(P(<<<<"a">>>>))),
          Operation("move", P(<<<<"a">>, <<"1">>>>), Undefined,
                    Str(P(<<<<"a">>, <<"0">>>>))),
          Operation("copy", P(<<<<"b">>>>), Undefined, Str(P(<<<<"a">>>>))),
          Operation("test", P(<<<<"a">>>>), Num(1), Undefined),
          Operation("add", P(<<<<"b">>>>), Undefined, Undefined),
          Operation("replace", P(<<<<"a">>>>), Undefined, Undefined),
          Operation("test", P(<<<<"a">>>>), Undefined, Undefined),
          Operation("test", P(<<<<"b">>>>), Undefined, Undefined),
          \* past the end of the array under "a", and the slot skipped
          Operation("add", P(<<<<"a">>, <<"3">>>>), Num(2), Undefined),
          Operation("test", P(<<<<"a">>, <<"2">>>>), Null, Undefined),
          Operation("invalid", P(<<<<"a">>>>), Num(2), Undefined)}

\* the paths of the add operations that carry a container
ContainerPaths == {<<<<"b">>>>, <<<<"b">>, <<"a">>>>, <<<<"a">>, <<"0">>>>}

InitPatch ==
  /\ pc = "building"
  /\ \E doc \in PatchDocs :
       LET d == alloc(<<>>, doc)
       IN  /\ heap = d.h
           /\ args = [json |-> d.r, operations |-> <<>>, h |-> d.h]
  /\ ret = None

\* the caller appends an operation whose value is a scalar or absent
AddPlainOperation ==
  /\ pc = "building"
  /\ Len(args.operations) < MaxOps
  /\ \E operation \in PlainOperations :
       args' = [args EXCEPT !.operations = Append(@, operation)]
  /\ UNCHANGED <<pc, heap, ret>>

\* the caller appends an add whose value is a new empty object
AddFreshOperation ==
  /\ pc = "building"
  /\ Len(args.operations) < MaxOps
  /\ \E path \in ContainerPaths :
       LET v == alloc(heap, Obj(<<>>))
       IN  /\ heap' = v.h
           /\ args' = [args EXCEPT
                         !.operations =
                           Append(@, Operation("add", P(path), v.r, Undefined))]
  /\ UNCHANGED <<pc, ret>>

\* the caller appends an add whose value is the object or array its
\* document holds under "a"
AddSharedOperation ==
  /\ pc = "building"
  /\ Len(args.operations) < MaxOps
  /\ IsRef(getProp(heap[args.json.a], <<"a">>))
  /\ \E path \in ContainerPaths :
       args' = [args EXCEPT
                  !.operations =
                    Append(@, Operation("add", P(path),
                                        getProp(heap[args.json.a], <<"a">>),
                                        Undefined))]
  /\ UNCHANGED <<pc, heap, ret>>

\* applyJsonPatch(json, operations); args.h keeps the heap as the call found it
Apply ==
  /\ pc = "building"
  /\ LET p == applyJsonPatch(heap, args.json, args.operations)
     IN  /\ heap' = p.h
         /\ ret' = [r |-> p.r, e |-> p.e]
  /\ args' = [args EXCEPT !.h = heap]
  /\ pc' = "applied"

NextPatch ==
  AddPlainOperation \/ AddFreshOperation \/ AddSharedOperation \/ Apply

SpecPatch == InitPatch /\ [][NextPatch]_vars

\* C6: after applyJsonPatch, returned or raised, the caller's document is
\* what it was before the call
C6_InputNotMutated ==
  pc = "applied" => view(heap, args.json) = view(args.h, args.json)

\* the outcome of the first k operations of the call on the caller's
\* document: the document the loop holds when it comes to operation k + 1
AfterFirst(k) ==
  applyJsonPatch(args.h, args.json, SubSeq(args.operations, 1, k))

\* operation k is reached, and its path resolves to nothing in the document
\* the first k - 1 operations left
ReachedUnresolved(k) ==
  /\ AfterFirst(k - 1).e = "ok"
  /\ IsUndefined(getJsonValueAtPointer(AfterFirst(k - 1).h,
                                       AfterFirst(k - 1).r,
                                       args.operations[k].path))

\* C16: a replace (carrying a value) or a remove whose path resolves to
\* nothing in the current document makes the call fail with PathNotFound
\* and return nothing; an add at such a path succeeds
C16_PathMustExistButForAdd ==
  pc = "applied"
  => \A k \in 1..Len(args.operations) :
       LET operation == args.operations[k]
       IN  /\ (/\ ReachedUnresolved(k)
               /\ \/ operation.op = "remove"
                  \/ (operation.op = "replace"
                        /\ ~IsUndefined(operation.value)))
              => ret.e = "PathNotFound" /\ IsUndefined(ret.r)
           /\ (/\ ReachedUnresolved(k)
               /\ operation.op = "add"
               /\ ~IsUndefined(operation.value))
              => AfterFirst(k).e = "ok"

\* a remove of an element the document lacks has failed, after an add at a
\* path that did not exist went through
C16_Witness ==
  /\ pc = "applied"
  /\ Len(args.operations) = 2
  /\ args.operations[1].op = "add"
  /\ args.operations[1].path = P(<<<<"b">>, <<"a">>>>)
  /\ IsUndefined(getProp(args.h[args.json.a], <<"b">>))
  /\ args.operations[2].op = "remove"
  /\ args.operations[2].path = P(<<<<"a">>, <<"0">>>>)
  /\ ret.e = "PathNotFound"

\* C17: an add, replace or test that carries no value makes the call fail
\* with MissingValue
C17_ValueRequired ==
  pc = "applied"
  => \A k \in 1..Len(args.operations) :
       (/\ AfterFirst(k - 1).e = "ok"
        /\ args.operations[k].op \in {"add", "replace", "test"}
        /\ IsUndefined(args.operations[k].value))
       => ret.e = "MissingValue"

\* the same operations given in two calls: the first k to the caller's
\* document, the others to what that call returned
InTwoCalls(k) ==
  LET first == AfterFirst(k)
  IN  IF first.e # "ok" THEN first
      ELSE applyJsonPatch(first.h, first.r,
                          SubSeq(args.operations, k + 1,
                                 Len(args.operations)))

\* C18: wherever the list of operations is cut in two, one call with the
\* whole list succeeds exactly when the two calls in a row do, and then the
\* two final documents are deep-equal
C18_OneCallIsTwoCalls ==
  pc = "applied"
  => \A k \in 0..Len(args.operations) :
       LET two == InTwoCalls(k)
           both == alloc(heap, view(two.h, two.r))
       IN  /\ (ret.e = "ok") <=> (two.e = "ok")
           /\ ret.e = "ok" => deepEquals(both.h, ret.r, both.r)

\* the operations of a diff that lie at the path or below it
OperationsAt(operations, path) ==
  SelectSeq(operations,
            LAMBDA operation :
              \/ operation.path = path
              \/ /\ Len(operation.path) > Len(path)
                 /\ SubSeq(operation.path, 1, Len(path) + 1)
                      = path \o <<"/">>)

\* the two values are of different types (an object against an array
\* included), or one is null, or one is no object or array
ReplacedWhole(h, sourceValue, targetValue) ==
  \/ typeof(sourceValue) # typeof(targetValue)
  \/ isArray(h, sourceValue) # isArray(h, targetValue)
  \/ sourceValue.t = "null" \/ targetValue.t = "null"
  \/ ~IsRef(sourceValue) \/ ~IsRef(targetValue)

\* C20: when source and target both have the key "a" and the values under it
\* are not deep-equal and are of different types, or one is null or no
\* object or array, the diff holds for "/a" and below exactly one operation:
\* replace "/a" by the target value
C20_MismatchIsOneReplace ==
  (/\ pc = "diffed"
   /\ hasKey(heap[args.source.a], <<"a">>)
   /\ hasKey(heap[args.target.a], <<"a">>))
  => LET sourceValue == getProp(heap[args.source.a], <<"a">>)
         targetValue == getProp(heap[args.target.a], <<"a">>)
     IN  (/\ ~deepEquals(heap, sourceValue, targetValue)
          /\ ReplacedWhole(heap, sourceValue, targetValue))
         => OperationsAt(ret.operations, <<"/", "a">>)
              = <<Operation("replace", <<"/", "a">>, targetValue, Undefined)>>

\* the source and the target hold arrays under "a" that are diffed element
\* by element
ArraysDiffedByElement ==
  /\ hasKey(heap[args.source.a], <<"a">>)
  /\ hasKey(heap[args.target.a], <<"a">>)
  /\ isArray(heap, getProp(heap[args.source.a], <<"a">>))
  /\ isArray(heap, getProp(heap[args.target.a], <<"a">>))
  /\ \A i \in 1..Len(ret.operations) :
       ret.operations[i].path # <<"/", "a">>

\* the index a path below "/a" ends with
IndexOf(path) == parseInt(SubSeq(path, 4, Len(path)))

\* C24: the removes of the trailing elements of the array under "a" come
\* after every other operation on that array, with strictly descending
\* indices, and each of them finds its element when the list is applied in
\* order
C24_RemovesDescend ==
  (pc = "diffed" /\ ArraysDiffedByElement)
  => LET operations == OperationsAt(ret.operations, <<"/", "a">>)
     IN  /\ \A i \in 1..Len(operations) : \A j \in (i + 1)..Len(operations) :
              operations[i].op = "remove"
              => /\ operations[j].op = "remove"
                 /\ IndexOf(operations[i].path) > IndexOf(operations[j].path)
         /\ \A k \in 1..Len(ret.operations) :
              ret.operations[k].op = "remove"
              => LET before == applyJsonPatch(heap, args.source,
                                              SubSeq(ret.operations, 1, k - 1))
                 IN  /\ before.e = "ok"
                     /\ ~IsUndefined(getJsonValueAtPointer(
                                        before.h, before.r,
                                        ret.operations[k].path))

\* an array of four elements is diffed against one of two that differs in
\* its first element: a replace, then the removes of index 3 and index 2
C24_Witness ==
  /\ pc = "diffed"
  /\ ArraysDiffedByElement
  /\ Len(heap[getProp(heap[args.source.a], <<"a">>).a].v) = 4
  /\ Len(ret.operations) = 3
  /\ ret.operations[1].op = "replace"
  /\ ret.operations[2]
       = Operation("remove", <<"/", "a", "/", "3">>, Undefined, Undefined)
  /\ ret.operations[3]
       = Operation("remove", <<"/", "a", "/", "2">>, Undefined, Undefined)

\* the arrays under "a" of the source and of the target
SourceArray == heap[getProp(heap[args.source.a], <<"a">>).a].v

TargetArray == heap[getProp(heap[args.target.a], <<"a">>).a].v

\* the path of element i of the array under "a"
ElementPath(i) == <<"/", "a", "/">> \o numToStr(i)

\* the length difference is more than half the length of the source
LengthsFarApart ==
  \/ 2 * (Len(SourceArray) - Len(TargetArray)) > Len(SourceArray)
  \/ 2 * (Len(TargetArray) - Len(SourceArray)) > Len(SourceArray)

\* C25: two arrays of scalars under "a" that are not deep-equal give one
\* replace of "/a" by the target array exactly when their lengths differ by
\* more than half the length of the source; otherwise each common index
\* gives a replace where the elements differ and nothing where they are
\* equal, each trailing index of the target one add with its element, each
\* trailing index of the source one remove, and nothing else
C25_WholesaleOrByElement ==
  (/\ pc = "diffed"
   /\ hasKey(heap[args.source.a], <<"a">>)
   /\ hasKey(heap[args.target.a], <<"a">>)
   /\ isArray(heap, getProp(heap[args.source.a], <<"a">>))
   /\ isArray(heap, getProp(heap[args.target.a], <<"a">>))
   /\ ~deepEquals(heap, getProp(heap[args.source.a], <<"a">>),
                  getProp(heap[args.target.a], <<"a">>)))
  => LET operations == OperationsAt(ret.operations, <<"/", "a">>)
         wholesale ==
           <<Operation("replace", <<"/", "a">>,
                       getProp(heap[args.target.a], <<"a">>), Undefined)>>
     IN  /\ LengthsFarApart <=> operations = wholesale
         /\ ~LengthsFarApart
              => /\ \A i \in 0..(Len(SourceArray) - 1) :
                      OperationsAt(operations, ElementPath(i))
                        = IF i >= Len(TargetArray)
                          THEN <<Operation("remove", ElementPath(i),
                                           Undefined, Undefined)>>
                          ELSE IF SourceArray[i + 1] = TargetArray[i + 1]
                          THEN <<>>
                          ELSE <<Operation("replace", ElementPath(i),
                                           TargetArray[i + 1], Undefined)>>
                 /\ \A i \in Len(SourceArray)..(Len(TargetArray) - 1) :
                      OperationsAt(operations, ElementPath(i))
                        = <<Operation("add", ElementPath(i),
                                      TargetArray[i + 1], Undefined)>>
                 /\ \A k \in 1..Len(operations) :
                      \E i \in 0..MaxDiffLen :
                        operations[k].path = ElementPath(i)

\* three elements against four with a different first element: a replace
\* and an add, no wholesale replace
C25_Witness ==
  /\ pc = "diffed"
  /\ hasKey(heap[args.source.a], <<"a">>)
  /\ hasKey(heap[args.target.a], <<"a">>)
  /\ isArray(heap, getProp(heap[args.source.a], <<"a">>))
  /\ isArray(heap, getProp(heap[args.target.a], <<"a">>))
  /\ Len(SourceArray) = 3
  /\ Len(TargetArray) = 4
  /\ Len(ret.operations) = 2
  /\ ret.operations[1].op = "replace"
  /\ ret.operations[1].path = ElementPath(0)
  /\ ret.operations[2].op = "add"
  /\ ret.operations[2].path = ElementPath(3)

\* the document the first k operations of the diff leave of the source
DiffAfterFirst(k) ==
  applyJsonPatch(args.h, args.source, SubSeq(ret.operations, 1, k))

RECURSIVE flattenLoop(_, _, _, _, _)
flattenLoop(h, json, pointers, i, result) ==
  IF i > Len(pointers) THEN [h |-> h, r |-> result, e |-> "ok"]
  ELSE LET value == getJsonValueAtPointer(h, json, pointers[i])
       IN  IF IsThrow(value) THEN [h |-> h, r |-> Undefined, e |-> value.e]
           ELSE IF IsUndefined(value)
           THEN flattenLoop(h, json, pointers, i + 1, result)
           ELSE flattenLoop([h EXCEPT ![result.a] =
                                        setProp(@, pointers[i], value)],
                            json, pointers, i + 1, result)

\* flattenJson(json): every pointer but the root one, with the value it
\* resolves to (containers are stored as they are, not copied)
flattenJson(h, json) ==
  LET result == alloc(h, Obj(<<>>))
      pointers == SelectSeq(getAllJsonPointers(h, json, <<>>),
                            LAMBDA p : p # <<>>)
  IN  flattenLoop(result.h, json, pointers, 1, result.r)

\* Object.assign(target, source) from property i of source
RECURSIVE objectAssign(_, _, _)
objectAssign(target, source, i) ==
  IF i > Len(source.v) THEN target
  ELSE objectAssign(setProp(target, source.v[i].k, source.v[i].x),
                    source, i + 1)

\* the for loop of unflattenJson from key i (counted from 1)
RECURSIVE unflattenLoop(_, _, _, _, _)
unflattenLoop(h, flat, sortedKeys, i, result) ==
  IF i > Len(sortedKeys) THEN [h |-> h, r |-> result, e |-> "ok"]
  ELSE
    LET pointer == sortedKeys[i]
        value == getProp(h[flat.a], pointer)
    IN  IF ~isJsonPointer(pointer)
        THEN [h |-> h, r |-> Undefined, e |-> "InvalidPointer"]
        ELSE IF pointer \in {<<>>, <<"/">>}
        THEN IF stackOverflow(h, value)
             THEN [h |-> h, r |-> Undefined, e |-> "RangeError"]
             ELSE IF isJsonObject(h, value)
             THEN unflattenLoop([h EXCEPT ![result.a] =
                                            objectAssign(@, h[value.a], 1)],
                                flat, sortedKeys, i + 1, result)
             ELSE unflattenLoop(h, flat, sortedKeys, i + 1, result)
        ELSE LET s == setJsonValueAtPointer(h, result, pointer, value)
             IN  IF s.e # "ok" THEN [h |-> s.h, r |-> Undefined, e |-> s.e]
                 ELSE unflattenLoop(s.h, flat, sortedKeys, i + 1, result)

\* unflattenJson(flat)
unflattenJson(h, flat) ==
  LET result == alloc(h, Obj(<<>>))
      node == h[flat.a]
      sortedKeys == sortSet({node.v[i].k : i \in 1..Len(node.v)})
  IN  unflattenLoop(result.h, flat, sortedKeys, 1, result.r)

(***************************************************************************)
(* Specification SpecFlat: a JSON object is flattened and the flat record  *)
(* is unflattened again.                                                   *)
(***************************************************************************)
\* the documents: those of SpecMut, and the objects of SpecNav with their
\* empty keys and keys that need escaping
FlatDocs == MutDocs \cup {v \in NavValues : v.t = "object"}

InitFlat ==
  /\ pc = "start"
  /\ \E doc \in FlatDocs :
       LET d == alloc(<<>>, doc)
       IN  /\ heap = d.h
           /\ args = [o |-> d.r, h |-> d.h]
  /\ ret = None

Flatten ==
  /\ pc = "start"
  /\ LET f == flattenJson(heap, args.o)
     IN  /\ heap' = f.h
         /\ ret' = [r |-> f.r, e |-> f.e]
  /\ pc' = "flattened"
  /\ UNCHANGED args

Unflatten ==
  /\ pc = "flattened"
  /\ ret.e = "ok"
  /\ LET u == unflattenJson(heap, ret.r)
     IN  /\ heap' = u.h
         /\ ret' = [r |-> u.r, e |-> u.e]
  /\ pc' = "unflattened"
  /\ UNCHANGED args

NextFlat == Flatten \/ Unflatten

SpecFlat == InitFlat /\ [][NextFlat]_vars

\* C19: flattening a JSON object and unflattening the record gives an object
\* deep-equal to the one flattened
C19_UnflattenInvertsFlatten ==
  pc = "unflattened" => ret.e = "ok" /\ deepEquals(heap, ret.r, args.o)

(***************************************************************************)
(* Specification SpecWalk: getJsonValueAtPointer on JSON objects that hold *)
(* scalars, arrays (nested once) and objects, with pointers whose segments *)
(* are keys, indices in and out of range, and digits followed by a letter. *)
(***************************************************************************)
WalkInner ==
  Scalars
    \cup ArrsOver(Scalars \cup {Arr(<<Num(2)>>)}, MaxArrLen)
    \cup ObjsOver({<<"a">>, <<"1">>}, {Num(1)}, 1)

WalkDocs == ObjsOver({<<"a">>, <<"0">>, <<"1">>}, WalkInner, 1)

WalkSegs ==
  {<<"a">>, <<"0">>, <<"1">>, <<"3">>, <<"0", "1">>, <<"1", "a">>}

WalkPointers == PointersOver(WalkSegs, MaxSegs)

InitWalk ==
  /\ pc = "start"
  /\ \E doc \in WalkDocs, pointer \in WalkPointers :
       LET d == alloc(<<>>, doc)
       IN  /\ heap = d.h
           /\ args = [obj |-> d.r, pointer |-> pointer, h |-> d.h]
  /\ ret = None

NextWalk == Get

SpecWalk == InitWalk /\ [][NextWalk]_vars

\* what the walk over a document tree gives: an array is indexed by a
\* segment of digits only, an object by the segment as its key, and every
\* other step ends in undefined
RECURSIVE treeWalk(_, _)
treeWalk(tree, segments) ==
  IF segments = <<>> THEN tree
  ELSE LET key == Head(segments)
           next ==
             IF tree.t = "array"
             THEN IF isDigits(key) /\ parseInt(key) < Len(tree.v)
                     /\ tree.v[parseInt(key) + 1].t # "hole"
                  THEN tree.v[parseInt(key) + 1]
                  ELSE Undefined
             ELSE IF tree.t = "object"
             THEN IF \E i \in 1..Len(tree.v) : tree.v[i].k = key
                  THEN tree.v[CHOOSE i \in 1..Len(tree.v) :
                                tree.v[i].k = key].x
                  ELSE Undefined
             ELSE Undefined
       IN  IF IsUndefined(next) THEN Undefined
           ELSE treeWalk(next, Tail(segments))

StepDocs ==
  UNION {{Obj(<<Entry(<<"a">>, arr)>>),
          Obj(<<Entry(<<"a">>, arr), Entry(<<"b">>, Num(1))>>),
          Obj(<<Entry(<<"a">>, arr),
                Entry(<<"b">>, Obj(<<Entry(<<"a">>, Num(1))>>))>>)} :
           arr \in ArrsOver(Elems, MaxArrLen)}
    \cup {Obj(<<Entry(<<"a">>, Obj(<<Entry(<<"a">>, Num(1))>>)),
                Entry(<<"b">>, Obj(<<>>))>>)}

StepPointers ==
  {P(path) : path \in {<<>>, <<<<"a">>>>, <<<<"b">>>>,
                        <<<<"a">>, <<"0">>>>, <<<<"a">>, <<"1">>>>,
                        <<<<"a">>, <<"2">>>>, <<<<"a">>, <<"3">>>>,
                        <<<<"a">>, <<"a">>>>, <<<<"b">>, <<"a">>>>}}

StepOperations ==
  {Operation(op, path, Undefined, Str(from)) :
     op \in {"move", "copy"}, path \in StepPointers, from \in StepPointers}
    \cup {Operation("add", path, Num(3), Undefined) : path \in StepPointers}

InitStep ==
  /\ pc = "building"
  /\ \E doc \in StepDocs, operation \in StepOperations :
       LET d == alloc(<<>>, doc)
       IN  /\ heap = d.h
           /\ args = [json |-> d.r, operations |-> <<operation>>, h |-> d.h]
  /\ ret = None

NextStep == Apply

SpecStep == InitStep /\ [][NextStep]_vars

\* the one operation of the call
TheOperation == args.operations[1]

\* the value the from pointer of the operation resolves to in the caller's
\* document
FromValue == getJsonValueAtPointer(args.h, args.json, TheOperation.from.v)

\* the call with the move spelt out: remove from, then add at path the value
\* from resolved to
RemoveThenAdd ==
  applyJsonPatch(args.h, args.json,
                 <<Operation("remove", TheOperation.from.v, Undefined,
                             Undefined),
                   Operation("add", TheOperation.path, FromValue,
                             Undefined)>>)

InitCopy ==
  /\ pc = "building"
  /\ \E doc \in StepDocs, path \in StepPointers, from \in StepPointers :
       LET d == alloc(<<>>, doc)
       IN  /\ heap = d.h
           /\ args = [json |-> d.r,
                      operations |->
                        <<Operation("copy", path, Undefined, Str(from))>>,
                      h |-> d.h]
  /\ ret = None

\* the operations that modify the value under the given path
LaterOperations(path) ==
  {Operation("add", path \o <<"/", "0">>, Num(3), Undefined),
   Operation("add", path \o <<"/", "a">>, Num(3), Undefined),
   Operation("replace", path, Num(3), Undefined),
   Operation("remove", path \o <<"/", "0">>, Undefined, Undefined)}

\* the caller appends an operation on the value under the path of the copy
AddLaterOperation ==
  /\ pc = "building"
  /\ Len(args.operations) = 1
  /\ \E operation \in LaterOperations(args.operations[1].path) :
       args' = [args EXCEPT !.operations = Append(@, operation)]
  /\ UNCHANGED <<pc, heap, ret>>

NextCopy == AddLaterOperation \/ Apply

SpecCopy == InitCopy /\ [][NextCopy]_vars

\* the value a pointer resolves to in the document the first k operations
\* left, as a tree
TreeAfter(k, pointer) ==
  view(AfterFirst(k).h,
       getJsonValueAtPointer(AfterFirst(k).h, AfterFirst(k).r, pointer))

IsPrefix(s, t) == Len(s) <= Len(t) /\ SubSeq(t, 1, Len(s)) = s

\* neither pointer is the other one or leads to a place above or below it
Apart(from, path) ==
  LET f == getJsonPointerSegments(from).segments
      p == getJsonPointerSegments(path).segments
  IN  ~IsPrefix(f, p) /\ ~IsPrefix(p, f)

\* setJsonValueAtPointer writes at the path in the caller's document: the
\* path is not the root, and its parent is missing, an object, or an array
\* with a last segment of digits
Writable(path) ==
  /\ path # <<>>
  /\ LET segments == getJsonPointerSegments(path).segments
         parent ==
           getJsonValueAtPointer(args.h, args.json,
                                 pointerOf(SubSeq(segments, 1,
                                                  Len(segments) - 1)))
     IN  \/ IsUndefined(parent)
         \/ (IsRef(parent) /\ args.h[parent.a].t = "object")
         \/ (isArray(args.h, parent) /\ isDigits(segments[Len(segments)]))

OnThePath(pointer) ==
  LET segments == getJsonPointerSegments(pointer).segments
  IN  IsPrefix(segments, Segs) \/ IsPrefix(Segs, segments)

\* the pointers of the document before the call and now
PointersBefore == getAllJsonPointers(args.h, args.obj, <<>>)

PointersNow == getAllJsonPointers(heap, args.obj, <<>>)

\* C26: after a set every pointer the document had that is off the path of
\* the call resolves to the value it resolved to, and every pointer the
\* document has gained is on the path of the call
C26_SetTouchesItsPathOnly ==
  pc = "set"
  => /\ \A i \in 1..Len(PointersBefore) :
          ~OnThePath(PointersBefore[i])
          => view(heap,
                  getJsonValueAtPointer(heap, args.obj, PointersBefore[i]))
               = view(args.h,
                      getJsonValueAtPointer(args.h, args.obj,
                                            PointersBefore[i]))
     /\ \A i \in 1..Len(PointersNow) :
          (\A j \in 1..Len(PointersBefore) :
             PointersBefore[j] # PointersNow[i])
          => OnThePath(PointersNow[i])

(***************************************************************************)
(* The add operation at an index of an array, under SpecStep               *)
(***************************************************************************)
\* the array the caller's document holds under "a", as a tree
ArrayBefore == view(args.h, getProp(args.h[args.json.a], <<"a">>)).v

\* the array the returned document holds under "a", as a tree
ArrayAfter == view(heap, getProp(heap[ret.r.a], <<"a">>)).v

\* the operation is an add at "/a/i", and the document holds an array under
\* "a"
AddsAtIndex(i) ==
  /\ TheOperation.op = "add"
  /\ TheOperation.path = <<"/", "a", "/">> \o numToStr(i)
  /\ isArray(args.h, getProp(args.h[args.json.a], <<"a">>))

\* C28: an add at an index the array has puts the value in the place of the
\* element there, the length and the other elements staying as they were;
\* an add at the index equal to the length appends the value
C28_AddOverwritesElement ==
  pc = "applied"
  => \A i \in 0..MaxArrLen :
       (AddsAtIndex(i) /\ i <= Len(ArrayBefore))
       => /\ ret.e = "ok"
          /\ isArray(heap, getProp(heap[ret.r.a], <<"a">>))
          /\ ArrayAfter
               = IF i < Len(ArrayBefore)
                 THEN [ArrayBefore EXCEPT ![i + 1] = TheOperation.value]
                 ELSE Append(ArrayBefore, TheOperation.value)

\* the first of two elements has been overwritten
C28_Witness ==
  /\ pc = "applied"
  /\ AddsAtIndex(0)
  /\ Len(ArrayBefore) = 2
  /\ ret.e = "ok"
  /\ ArrayAfter = <<Num(3), ArrayBefore[2]>>

\* the operation is a move from "/a/i" to "/a/j", and the document holds an
\* array under "a" that has both indices
MovesWithinArray(i, j) ==
  /\ TheOperation.op = "move"
  /\ TheOperation.from.v = <<"/", "a", "/">> \o numToStr(i)
  /\ TheOperation.path = <<"/", "a", "/">> \o numToStr(j)
  /\ isArray(args.h, getProp(args.h[args.json.a], <<"a">>))
  /\ i < Len(ArrayBefore)
  /\ j < Len(ArrayBefore)

\* how many times x stands in the sequence
Count(seq, x) == Cardinality({k \in 1..Len(seq) : seq[k] = x})

\* C29: a move between two indices of one array, the same index twice
\* included, gives an array of the same length with the same elements, each
\* as many times as before
C29_MoveKeepsElements ==
  pc = "applied"
  => \A i \in 0..MaxArrLen, j \in 0..MaxArrLen :
       MovesWithinArray(i, j)
       => /\ ret.e = "ok"
          /\ isArray(heap, getProp(heap[ret.r.a], <<"a">>))
          /\ Len(ArrayAfter) = Len(ArrayBefore)
          /\ \A x \in Elems : Count(ArrayAfter, x) = Count(ArrayBefore, x)

(***************************************************************************)
(* The operation list of the caller, under SpecPatch                       *)
(***************************************************************************)
\* C30: after the call every value an operation of the list carries is what
\* it was before the call
C30_OperationValuesKept ==
  pc = "applied"
  => \A k \in 1..Len(args.operations) :
       view(heap, args.operations[k].value)
         = view(args.h, args.operations[k].value)

====
